---- MODULE Spec2Model ----
(***************************************************************************)
(* A model of the sparrow columnar array library: the validity bitmap      *)
(* (dynamic_bitset<uint8_t>), ensure_validity_bitmap, the array factory    *)
(* and the list / list-view / fixed-size-list arrays.                      *)
(*                                                                         *)
(* Eleven state machines share the module:                                  *)
(*   BitmapSpec   one validity bitmap under construction, set and resize;  *)
(*   EnsureSpec   the ensure_validity_bitmap overloads applied to drawn    *)
(*                arguments;                                               *)
(*   FactorySpec  array_factory applied to a format string;                *)
(*   Spec         the list-family arrays: offset_from_sizes, create_proxy, *)
(*                construction from a proxy and value(i);                  *)
(*   SchemaSpec   an ArrowSchema made, then released;                      *)
(*   CopySpec     a list-family array copied, the copy written through,    *)
(*                the original destroyed;                                  *)
(*   BuilderSpec  build(range) on a range of values, then the elements of  *)
(*                the layout read back;                                    *)
(*   NullSpec     two null_arrays made, indexed, iterated and compared;    *)
(*   LayoutSpec   a fixed_size_layout over an array_data, indexed and      *)
(*                iterated;                                                *)
(*   AdoptSpec    a list-family array constructed from a proxy an external *)
(*                producer hands over, well-formed or not;                 *)
(*   LifetimeSpec a list array on an owning proxy constructed, moved and   *)
(*                destroyed, and the release callbacks that run.           *)
(* Strings are sequences of one-character strings, so that substr, stoull  *)
(* and to_string are computed rather than assumed.                         *)
(***************************************************************************)
EXTENDS Integers, Sequences, FiniteSets, TLC

VARIABLES
    contracts,      \* TRUE when SPARROW_ASSERT* is compiled in (a build choice)
    bitmap,         \* the validity bitmap object of BitmapSpec
    bm_last,        \* the operation that produced `bitmap` (ghost)
    ens_in,         \* the arguments of the last ensure_validity_bitmap calls
    ens_out,        \* what the overloads returned for ens_in
    proxy_format,   \* FactorySpec: the format of the proxy handed to the factory
    layout,         \* FactorySpec: what array_factory returned or threw
    offs,           \* Spec: the offsets buffer in hand, before it is moved into an array
    arr,            \* Spec: the list-family array, or how its construction failed
    read,           \* Spec: the last value(i) read from arr
    schema,         \* SchemaSpec: the ArrowSchema in hand and how it was made
    sch_heap,       \* SchemaSpec: the objects the schema points to
    sch_log,        \* SchemaSpec: the calls of release_arrow_schema so far
    brr,            \* CopySpec: the copy b of the array a held in arr
    live,           \* CopySpec: the allocations not yet released
    built,          \* BuilderSpec: the range handed to build() and what it returned
    elem,           \* BuilderSpec: the last element read from the layout built
    nul,            \* NullSpec: the null_arrays a and b
    nul_op,         \* NullSpec: the last operation on them and what it gave
    fsl,            \* LayoutSpec: the array_data and the fixed_size_layout over it
    fsl_op,         \* LayoutSpec: the last operation on the layout and what it gave
    mal,            \* AdoptSpec: the proxy handed to a list-family constructor and the outcome
    own             \* LifetimeSpec: the holders of a list array and the releases so far

vars == <<contracts, bitmap, bm_last, ens_in, ens_out, proxy_format, layout,
          offs, arr, read, schema, sch_heap, sch_log, brr, live,
          built, elem, nul, nul_op, fsl, fsl_op, mal, own>>

bitmapVars == <<bitmap, bm_last>>

ensureVars == <<ens_in, ens_out>>

factoryVars == <<proxy_format, layout>>

listVars == <<offs, arr, read>>

schemaVars == <<schema, sch_heap, sch_log>>

\* The variables of the machines other than the bitmap, ensure, factory and
\* list machines.
copyVars == <<brr, live>>

\* The variables of the machines that follow the schema machine.
builderVars == <<built, elem>>

nullVars == <<nul, nul_op>>

\* The variables of the machines that follow the builder machine.
fslVars == <<fsl, fsl_op>>

malVars == <<mal>>

ownVars == <<own>>

tailVars == <<nullVars, fslVars, malVars, ownVars>>

laterVars == <<copyVars, builderVars, tailVars>>

auxVars == <<schemaVars, laterVars>>

(***************************************************************************)
(* Bounds of the model.                                                    *)
(***************************************************************************)
MaxBits == 3

None == [kind |-> "none"]

Min(a, b) == IF a < b THEN a ELSE b

\* All sequences over S of length at most n.
SeqsUpTo(S, n) == UNION {[1..k -> S] : k \in 0..n}

(***************************************************************************)
(* dynamic_bitset<std::uint8_t>  (validity_bitmap)                         *)
(* A bitmap is [bits, null_count]: bits[i+1] is bit i, size() is Len(bits) *)
(* and null_count is the cached count the class maintains.                 *)
(***************************************************************************)
size(bm) == Len(bm.bits)

null_count(bm) == bm.null_count

test(bm, pos) == bm.bits[pos + 1]

\* dynamic_bitset(): empty storage, size 0.
dynamic_bitset_default == [bits |-> <<>>, null_count |-> 0]

\* dynamic_bitset(n, v) with the cached count the initializer forgets.
dynamic_bitset_fill_nocount(n, value) ==
    [bits |-> [i \in 1..n |-> value], null_count |-> 0]

\* dynamic_bitset(n, v): every block filled with v, size n,
\* null_count  value ? 0 : n.
dynamic_bitset_fill(n, value) ==
    [bits |-> [i \in 1..n |-> value], null_count |-> IF value THEN 0 ELSE n]

\* update_null_count(old, new): the cached count moves by the delta.
update_null_count(nc, old_value, new_value) ==
    IF new_value /\ ~old_value THEN nc - 1
    ELSE IF ~new_value /\ old_value THEN nc + 1
    ELSE nc

\* set(pos, value), pos < size().
set(bm, pos, value) ==
    [bits       |-> [bm.bits EXCEPT ![pos + 1] = value],
     null_count |-> update_null_count(bm.null_count, bm.bits[pos + 1], value)]

\* resize(n, b): keeps the first min(n, size) bits, new bits take b; the
\* cached count drops the nulls cut off and gains the nulls appended.
resize(bm, n, b) ==
    LET keep    == Min(n, size(bm))
        cut     == Cardinality({i \in keep + 1..size(bm) : ~bm.bits[i]})
        added   == IF b \/ n <= size(bm) THEN 0 ELSE n - size(bm)
    IN  [bits       |-> [i \in 1..n |-> IF i <= keep THEN bm.bits[i] ELSE b],
         null_count |-> bm.null_count - cut + added]

\* The loop of dynamic_bitset(const R&): for (auto value : r)
\* { if (!value) set(i, false); i++; }
RECURSIVE range_ctor_loop(_, _, _)
range_ctor_loop(bm, r, i) ==
    IF i >= Len(r) THEN bm
    ELSE IF ~r[i + 1] THEN range_ctor_loop(set(bm, i, FALSE), r, i + 1)
    ELSE range_ctor_loop(bm, r, i + 1)

\* dynamic_bitset(const R& r): dynamic_bitset(size(r), true), then the loop.
dynamic_bitset_range(r) ==
    range_ctor_loop(dynamic_bitset_fill(Len(r), TRUE), r, 0)

(***************************************************************************)
(* BitmapSpec, first part: one bitmap object.                              *)
(***************************************************************************)
BoolSeqs == SeqsUpTo(BOOLEAN, MaxBits)

BitmapIdle ==
    /\ bitmap = dynamic_bitset_default
    /\ bm_last = [op |-> "default"]

EnsureIdle ==
    /\ ens_in = None
    /\ ens_out = None

FactoryIdle ==
    /\ proxy_format = <<>>
    /\ layout = None

ListIdle ==
    /\ offs = None
    /\ arr = None
    /\ read = None

SchemaIdle ==
    /\ schema = None
    /\ sch_heap = None
    /\ sch_log = None

CopyIdle ==
    /\ brr = None
    /\ live = None

BuilderIdle ==
    /\ built = None
    /\ elem = None

NullIdle ==
    /\ nul = None
    /\ nul_op = None

FslIdle ==
    /\ fsl = None
    /\ fsl_op = None

MalIdle == mal = None

OwnIdle == own = None

TailIdle == NullIdle /\ FslIdle /\ MalIdle /\ OwnIdle

LaterIdle == CopyIdle /\ BuilderIdle /\ TailIdle

AuxIdle == SchemaIdle /\ LaterIdle

BitmapInit ==
    /\ contracts \in BOOLEAN
    /\ BitmapIdle
    /\ EnsureIdle
    /\ FactoryIdle
    /\ ListIdle
    /\ AuxIdle

ConstructRange ==
    \E bs \in BoolSeqs :
        /\ bitmap' = dynamic_bitset_range(bs)
        /\ bm_last' = [op |-> "range", bs |-> bs]
        /\ UNCHANGED <<contracts, auxVars, ensureVars, factoryVars, listVars>>

ConstructFill ==
    \E n \in 0..MaxBits, v \in BOOLEAN :
        /\ bitmap' = dynamic_bitset_fill(n, v)
        /\ bm_last' = [op |-> "fill", n |-> n, v |-> v]
        /\ UNCHANGED <<contracts, auxVars, ensureVars, factoryVars, listVars>>

Set ==
    \E pos \in 0..MaxBits - 1, v \in BOOLEAN :
        /\ pos < size(bitmap)
        /\ bitmap' = set(bitmap, pos, v)
        /\ bm_last' = [op |-> "set", pos |-> pos, v |-> v]
        /\ UNCHANGED <<contracts, auxVars, ensureVars, factoryVars, listVars>>

Resize ==
    \E n \in 0..MaxBits, b \in BOOLEAN :
        /\ bitmap' = resize(bitmap, n, b)
        /\ bm_last' = [op |-> "resize", n |-> n, v |-> b]
        /\ UNCHANGED <<contracts, auxVars, ensureVars, factoryVars, listVars>>

BitmapNext == ConstructRange \/ ConstructFill \/ Set \/ Resize

BitmapSpec == BitmapInit /\ [][BitmapNext]_vars

(***************************************************************************)
(* ensure_validity_bitmap: four overloads.  A call returns                 *)
(* [status, bitmap]; status is "ok", "assertion_failed" (a SPARROW_ASSERT  *)
(* fired, contracts compiled in) or "out_of_range_write" (set(i, ...) with *)
(* i >= size() and no contract to stop it).                                *)
(***************************************************************************)
Ok(bm) == [status |-> "ok", bitmap |-> bm]

Failed(why) == [status |-> why, bitmap |-> None]

\* bitmap.set(i, false) as the overloads call it: set() asserts pos < size().
checked_set(checks, bm, pos, value) ==
    IF pos < size(bm) THEN Ok(set(bm, pos, value))
    ELSE IF checks THEN Failed("assertion_failed")
    ELSE Failed("out_of_range_write")

\* A std::size_t is written as the int64 with the same 64 bits (the model checker's
\* integers stop at 2^31): a negative number is a size of 2^63 or more, which
\* no allocation of that many bits can satisfy.
Allocatable(n) == n >= 0

\* validity_bitmap(size, true), allocation included.
all_valid(n) ==
    IF Allocatable(n) THEN Ok(dynamic_bitset_fill(n, TRUE)) ELSE Failed("bad_alloc")

\* ensure_validity_bitmap(size, const validity_bitmap&)
ensure_validity_bitmap_cref(n, bm) ==
    IF size(bm) = 0 THEN all_valid(n) ELSE Ok(bm)

\* The rvalue overload handing the bitmap back without the resize.
ensure_validity_bitmap_rvalue_no_resize(n, bm) == Ok(bm)

\* ensure_validity_bitmap(size, validity_bitmap&&)
ensure_validity_bitmap_rvalue(n, bm) ==
    IF size(bm) = 0
    THEN IF Allocatable(n) THEN Ok(resize(bm, n, TRUE)) ELSE Failed("bad_alloc")
    ELSE Ok(bm)

\* The loop of the bool overload: if (!value) bitmap.set(i, false); i++.
RECURSIVE bools_loop(_, _, _, _)
bools_loop(checks, res, range, i) ==
    IF i >= Len(range) \/ res.status # "ok" THEN res
    ELSE IF ~range[i + 1]
         THEN bools_loop(checks, checked_set(checks, res.bitmap, i, FALSE), range, i + 1)
         ELSE bools_loop(checks, res, range, i + 1)

\* The bool overload with the loop over the range left out.
ensure_validity_bitmap_bools_all_valid(checks, n, range) ==
    IF checks /\ ~(n = Len(range) \/ Len(range) = 0)
    THEN Failed("assertion_failed")
    ELSE all_valid(n)

\* ensure_validity_bitmap(size, range of bool)
ensure_validity_bitmap_bools(checks, n, range) ==
    IF checks /\ ~(n = Len(range) \/ Len(range) = 0)
    THEN Failed("assertion_failed")
    ELSE bools_loop(checks, all_valid(n), range, 0)

\* The marker loop with the test inverted (value != 0 marks a null).
RECURSIVE markers_loop_inverted(_, _, _, _)
markers_loop_inverted(checks, res, range, i) ==
    IF i >= Len(range) \/ res.status # "ok" THEN res
    ELSE IF range[i + 1] # 0
         THEN markers_loop_inverted(checks, checked_set(checks, res.bitmap, i, FALSE), range, i + 1)
         ELSE markers_loop_inverted(checks, res, range, i + 1)

\* The loop of the unsigned overload: if (value == 0) bitmap.set(i, false); i++.
RECURSIVE markers_loop(_, _, _, _)
markers_loop(checks, res, range, i) ==
    IF i >= Len(range) \/ res.status # "ok" THEN res
    ELSE IF range[i + 1] = 0
         THEN markers_loop(checks, checked_set(checks, res.bitmap, i, FALSE), range, i + 1)
         ELSE markers_loop(checks, res, range, i + 1)

\* ensure_validity_bitmap(size, range of unsigned integers)
ensure_validity_bitmap_markers(checks, n, range) ==
    markers_loop(checks, all_valid(n), range, 0)

(***************************************************************************)
(* EnsureSpec: the overloads applied to drawn arguments.  ens_in is either *)
(* a bitmap argument or a pair of ranges (bools, unsigned markers).        *)
(***************************************************************************)
Markers == {0, 1, 2}

MarkerSeqs == SeqsUpTo(Markers, MaxBits)

EnsureInputs ==
    {[kind |-> "bitmap", size |-> n, bitmap |-> dynamic_bitset_range(bs)] :
        n \in 0..MaxBits, bs \in BoolSeqs}
    \cup
    {[kind |-> "ranges", size |-> n, bools |-> bs, markers |-> ms] :
        n \in 0..MaxBits, bs \in BoolSeqs, ms \in MarkerSeqs}

NotCalled == [cref |-> None, rvalue |-> None, bools |-> None, markers |-> None]

EnsureInit ==
    /\ contracts \in BOOLEAN
    /\ BitmapIdle
    /\ ens_in \in EnsureInputs
    /\ ens_out = NotCalled
    /\ FactoryIdle
    /\ ListIdle
    /\ AuxIdle

EnsureConstRef ==
    /\ ens_in.kind = "bitmap"
    /\ ens_out.cref = None
    /\ ens_out' = [ens_out EXCEPT !.cref =
                        ensure_validity_bitmap_cref(ens_in.size, ens_in.bitmap)]
    /\ UNCHANGED <<contracts, auxVars, bitmapVars, ens_in, factoryVars, listVars>>

EnsureRvalue ==
    /\ ens_in.kind = "bitmap"
    /\ ens_out.rvalue = None
    /\ ens_out' = [ens_out EXCEPT !.rvalue =
                        ensure_validity_bitmap_rvalue(ens_in.size, ens_in.bitmap)]
    /\ UNCHANGED <<contracts, auxVars, bitmapVars, ens_in, factoryVars, listVars>>

EnsureBools ==
    /\ ens_in.kind = "ranges"
    /\ ens_out.bools = None
    /\ ens_out' = [ens_out EXCEPT !.bools =
                        ensure_validity_bitmap_bools(contracts, ens_in.size, ens_in.bools)]
    /\ UNCHANGED <<contracts, auxVars, bitmapVars, ens_in, factoryVars, listVars>>

EnsureMarkers ==
    /\ ens_in.kind = "ranges"
    /\ ens_out.markers = None
    /\ ens_out' = [ens_out EXCEPT !.markers =
                        ensure_validity_bitmap_markers(contracts, ens_in.size, ens_in.markers)]
    /\ UNCHANGED <<contracts, auxVars, bitmapVars, ens_in, factoryVars, listVars>>

EnsureNext == EnsureConstRef \/ EnsureRvalue \/ EnsureBools \/ EnsureMarkers

EnsureSpec == EnsureInit /\ [][EnsureNext]_vars

(***************************************************************************)
(* array_factory.  A format is a sequence of characters.  The factory     *)
(* either makes a layout, [status |-> "made", class, T], or throws,        *)
(* [status |-> "thrown", what].                                            *)
(***************************************************************************)
MaxFormatLen == 4

Made(class, T) == [status |-> "made", class |-> class, T |-> T]

Thrown(what) == [status |-> "thrown", what |-> what]

\* The switch on proxy.format()[0] with the cases 'i' and 'I' exchanged.
single_char_layout_swapped(c) ==
    CASE c = "n" -> Made("null_array", "none")
      [] c = "b" -> Made("primitive_array", "bool")
      [] c = "c" -> Made("primitive_array", "std::int8_t")
      [] c = "C" -> Made("primitive_array", "std::uint8_t")
      [] c = "s" -> Made("primitive_array", "std::int16_t")
      [] c = "S" -> Made("primitive_array", "std::uint16_t")
      [] c = "i" -> Made("primitive_array", "std::uint32_t")
      [] c = "I" -> Made("primitive_array", "std::int32_t")
      [] c = "l" -> Made("primitive_array", "std::int64_t")
      [] c = "L" -> Made("primitive_array", "std::uint64_t")
      [] c = "f" -> Made("primitive_array", "float")
      [] c = "d" -> Made("primitive_array", "double")
      [] OTHER   -> Thrown("Unsupported format")

\* The switch on proxy.format()[0] of a one-character format.
single_char_layout(c) ==
    CASE c = "n" -> Made("null_array", "none")
      [] c = "b" -> Made("primitive_array", "bool")
      [] c = "c" -> Made("primitive_array", "std::int8_t")
      [] c = "C" -> Made("primitive_array", "std::uint8_t")
      [] c = "s" -> Made("primitive_array", "std::int16_t")
      [] c = "S" -> Made("primitive_array", "std::uint16_t")
      [] c = "i" -> Made("primitive_array", "std::int32_t")
      [] c = "I" -> Made("primitive_array", "std::uint32_t")
      [] c = "l" -> Made("primitive_array", "std::int64_t")
      [] c = "L" -> Made("primitive_array", "std::uint64_t")
      [] c = "f" -> Made("primitive_array", "float")
      [] c = "d" -> Made("primitive_array", "double")
      [] OTHER   -> Thrown("Unsupported format")

\* The else branch with its final throw lost: anything else is a list_array.
multi_char_layout_nothrow(format) ==
    IF format = <<"+", "L">> THEN Made("big_list_array", "list_value")
    ELSE Made("list_array", "list_value")

\* The else branch: formats whose size is not 1 (the empty one included).
multi_char_layout(format) ==
    IF format = <<"+", "l">> THEN Made("list_array", "list_value")
    ELSE IF format = <<"+", "L">> THEN Made("big_list_array", "list_value")
    ELSE Thrown("Unsupported format")

\* array_factory(proxy), as far as proxy.format() decides it.
array_factory(format) ==
    IF Len(format) = 1 THEN single_char_layout(format[1])
    ELSE multi_char_layout(format)

(***************************************************************************)
(* FactorySpec: the factory applied to a drawn format.                     *)
(***************************************************************************)
ScalarChars == {"n", "b", "c", "C", "s", "S", "i", "I", "l", "L", "f", "d"}

OtherChars == {"+", "v", "w", ":", "q", "3", "u", "z"}

NestedChars == {"+", "l", "L", "v", "w", ":", "q", "3"}

Formats ==
    {<<>>} \cup {<<c>> : c \in ScalarChars \cup OtherChars}
           \cup UNION {[1..k -> NestedChars] : k \in 2..MaxFormatLen}

FactoryInit ==
    /\ contracts \in BOOLEAN
    /\ BitmapIdle
    /\ EnsureIdle
    /\ proxy_format \in Formats
    /\ layout = None
    /\ ListIdle
    /\ AuxIdle

Create ==
    /\ layout = None
    /\ layout' = array_factory(proxy_format)
    /\ UNCHANGED <<contracts, auxVars, bitmapVars, ensureVars, proxy_format, listVars>>

FactoryNext == Create

FactorySpec == FactoryInit /\ [][FactoryNext]_vars

(***************************************************************************)
(* Machine words and byte buffers.  A word is a little-endian sequence of  *)
(* bytes, so that 32- and 64-bit values keep their width.                  *)
(***************************************************************************)
RECURSIVE ToWord(_, _)
ToWord(v, w) == IF w = 0 THEN <<>> ELSE <<v % 256>> \o ToWord(v \div 256, w - 1)

\* a + b + carry modulo 2^(8 * Len(a)), both words of the same width.
RECURSIVE WordAddCarry(_, _, _)
WordAddCarry(a, b, carry) ==
    IF a = <<>> THEN <<>>
    ELSE LET t == a[1] + b[1] + carry
         IN  <<t % 256>> \o WordAddCarry(Tail(a), Tail(b), t \div 256)

WordAdd(a, b) == WordAddCarry(a, b, 0)

\* k * a modulo 2^(8 * Len(a)), k a small multiplier.
RECURSIVE WordScale(_, _)
WordScale(k, a) ==
    IF k = 0 THEN ToWord(0, Len(a)) ELSE WordAdd(a, WordScale(k - 1, a))

\* 0 - a modulo 2^(8 * Len(a)).
WordNeg(a) == WordAdd([k \in 1..Len(a) |-> 255 - a[k]], ToWord(1, Len(a)))

\* static_cast to a wider unsigned type.
ZeroExtend(a, w) == a \o [k \in 1..(w - Len(a)) |-> 0]

\* A u8_buffer<T>: [width, data], data the elements of type T.
U8Buffer(w, data) == [width |-> w, data |-> data]

\* u8_buffer<T>::extract_storage(): the elements as bytes.
RECURSIVE extract_storage(_)
extract_storage(buf) ==
    IF buf.data = <<>> THEN <<>>
    ELSE ToWord(Head(buf.data), buf.width)
            \o extract_storage([buf EXCEPT !.data = Tail(buf.data)])

\* sizeof of the offset type: std::uint64_t when BIG, else std::uint32_t.
OffsetWidth(BIG) == IF BIG THEN 8 ELSE 4

(***************************************************************************)
(* std::to_string and std::stoull on character sequences.                  *)
(***************************************************************************)
DigitChars == <<"0", "1", "2", "3", "4", "5", "6", "7", "8", "9">>

IsDigit(c) == \E d \in 1..10 : DigitChars[d] = c

DigitValue(c) == (CHOOSE d \in 1..10 : DigitChars[d] = c) - 1

\* std::to_string of an unsigned value: its decimal digits.
RECURSIVE to_string(_)
to_string(n) ==
    IF n < 10 THEN <<DigitChars[n + 1]>>
    ELSE to_string(n \div 10) \o <<DigitChars[(n % 10) + 1]>>

\* The digits strtoull consumes from position i on, accumulated in base 10.
RECURSIVE parse_digits(_, _, _)
parse_digits(str, i, acc) ==
    IF i > Len(str) \/ ~IsDigit(str[i]) THEN acc
    ELSE parse_digits(str, i + 1, acc * 10 + DigitValue(str[i]))

RECURSIVE skip_spaces(_, _)
skip_spaces(str, i) ==
    IF i <= Len(str) /\ str[i] = " " THEN skip_spaces(str, i + 1) ELSE i

\* std::stoull(str): leading white space, an optional sign, then digits; what
\* follows the digits is ignored; no digit at all throws invalid_argument; a
\* minus sign negates the value as an unsigned 64-bit number.
stoull(str) ==
    LET i      == skip_spaces(str, 1)
        signed == i <= Len(str) /\ str[i] \in {"+", "-"}
        j      == IF signed THEN i + 1 ELSE i
        value  == ToWord(parse_digits(str, j, 0), 8)
    IN  IF j > Len(str) \/ ~IsDigit(str[j])
        THEN [status |-> "thrown", what |-> "std::invalid_argument"]
        ELSE [status |-> "ok",
              value  |-> IF signed /\ str[i] = "-" THEN WordNeg(value) ELSE value]

(***************************************************************************)
(* The list-family arrays.                                                 *)
(* A proxy is [format, length, null_count, offset, buffers, children]:     *)
(* buffers[1] is the validity buffer (its bits), the other buffers are     *)
(* bytes; children are the proxies of the flat arrays, [format, length].   *)
(* A pointer into a buffer is [buffer, byte]: the index of the buffer in   *)
(* buffers() and the byte it points at.                                    *)
(***************************************************************************)
MaxLen == 2

MaxEntry == 2

MaxFlat == 3

MaxListSize == 10

MaxOffset == 1

OFFSET_BUFFER_INDEX == 1

SIZES_BUFFER_INDEX == 2

\* ensure_validity_bitmap(size, std::forward<VB>(validity_input)): the overload
\* the validity_bitmap_input argument selects.
ensure_validity_bitmap(checks, n, vin) ==
    CASE vin.kind = "rvalue"  -> ensure_validity_bitmap_rvalue(n, vin.bitmap)
      [] vin.kind = "cref"    -> ensure_validity_bitmap_cref(n, vin.bitmap)
      [] vin.kind = "bools"   -> ensure_validity_bitmap_bools(checks, n, vin.range)
      [] vin.kind = "markers" -> ensure_validity_bitmap_markers(checks, n, vin.range)

\* detail::offset_buffer_from_sizes<T>: offsets[0] = 0,
\* offsets[k+1] = offsets[k] + sizes[k].
RECURSIVE partial_sum(_, _)
partial_sum(sizes, acc) ==
    IF sizes = <<>> THEN <<>>
    ELSE <<acc + Head(sizes)>> \o partial_sum(Tail(sizes), acc + Head(sizes))

offset_buffer_from_sizes(w, sizes) == U8Buffer(w, <<0>> \o partial_sum(sizes, 0))

\* offset_from_sizes returning the sizes themselves behind a leading 0.
offset_from_sizes_no_sum(BIG, sizes) == U8Buffer(OffsetWidth(BIG), <<0>> \o sizes)

\* list_array_impl<BIG>::offset_from_sizes
offset_from_sizes(BIG, sizes) == offset_buffer_from_sizes(OffsetWidth(BIG), sizes)

\* The allocation of the first proxy a program makes.  A proxy owns its
\* buffers and children; a pointer into a buffer is [proxy, buffer, byte]:
\* the allocation, the index of the buffer in buffers(), the byte pointed at.
FirstId == 1

Proxy(format, length, nulls, buffers, flat_values) ==
    [status     |-> "ok",
     id         |-> FirstId,
     format     |-> format,
     length     |-> length,
     null_count |-> nulls,
     offset     |-> 0,
     buffers    |-> buffers,
     children   |-> <<flat_values>>]

\* list_array_impl<BIG>::create_proxy.  size is list_offsets.size() - 1 in
\* std::size_t: with no offsets at all it wraps to 2^64 - 1, the number the
\* cast to int64 length reads as -1.
list_array_create_proxy(checks, BIG, flat_values, list_offsets, validity_input) ==
    LET n  == Len(list_offsets.data) - 1
        vb == ensure_validity_bitmap(checks, n, validity_input)
    IN  IF vb.status # "ok" THEN [status |-> vb.status]
        ELSE Proxy(IF BIG THEN <<"+", "L">> ELSE <<"+", "l">>,
                   n, null_count(vb.bitmap),
                   <<vb.bitmap.bits, extract_storage(list_offsets)>>,
                   flat_values)

\* list_view_array_impl<BIG>::create_proxy
list_view_array_create_proxy(checks, BIG, flat_values, list_offsets, list_sizes, validity_input) ==
    IF checks /\ Len(list_offsets.data) # Len(list_sizes.data)
    THEN [status |-> "assertion_failed"]
    ELSE LET n  == Len(list_sizes.data)
             vb == ensure_validity_bitmap(checks, n, validity_input)
         IN  IF vb.status # "ok" THEN [status |-> vb.status]
             ELSE Proxy(IF BIG THEN <<"+", "v", "L">> ELSE <<"+", "v", "l">>,
                        n, null_count(vb.bitmap),
                        <<vb.bitmap.bits, extract_storage(list_offsets),
                          extract_storage(list_sizes)>>,
                        flat_values)

\* What flat_values.size() / list_size can do when list_size is 0: the
\* division traps, or (where the divide instruction does not trap) yields 0.
DivisionByZero == {"trap", "zero"}

\* fixed_sized_list_array::create_proxy
fixed_sized_list_array_create_proxy(checks, list_size, flat_values, validity_input, ub) ==
    IF list_size = 0 /\ ub = "trap" THEN [status |-> "division_by_zero"]
    ELSE LET n  == IF list_size = 0 THEN 0 ELSE flat_values.length \div list_size
             vb == ensure_validity_bitmap(checks, n, validity_input)
         IN  IF vb.status # "ok" THEN [status |-> vb.status]
             ELSE Proxy(<<"+", "w", ":">> \o to_string(list_size),
                        n, null_count(vb.bitmap), <<vb.bitmap.bits>>, flat_values)

\* make_flat_array handing the factory child 0 itself, not a view of it.
make_flat_array_owning(proxy) ==
    [layout   |-> array_factory(proxy.children[1].format),
     owner_of |-> [proxy |-> proxy.id, child |-> 0]]

\* list_array_crtp_base::make_flat_array: the factory on a view of child 0.
make_flat_array(proxy) ==
    [layout  |-> array_factory(proxy.children[1].format),
     view_of |-> [proxy |-> proxy.id, child |-> 0]]

\* list_array_impl<BIG>::make_list_offsets: buffers()[1].data() + offset(),
\* data() a pointer to bytes.
make_list_offsets(proxy) ==
    [proxy |-> proxy.id, buffer |-> OFFSET_BUFFER_INDEX, byte |-> proxy.offset]

\* list_view_array_impl<BIG>::make_list_offsets
list_view_make_list_offsets(proxy) ==
    [proxy |-> proxy.id, buffer |-> OFFSET_BUFFER_INDEX, byte |-> proxy.offset]

\* list_view_array_impl<BIG>::make_list_sizes
make_list_sizes(proxy) ==
    [proxy |-> proxy.id, buffer |-> SIZES_BUFFER_INDEX, byte |-> proxy.offset]

\* list_size_from_format with the suffix starting one character early.
list_size_from_format_off_by_one(checks, format) ==
    IF Len(format) < 3
    THEN [status |-> IF checks THEN "assertion_failed" ELSE "thrown",
          what |-> "std::out_of_range"]
    ELSE stoull(SubSeq(format, 3, Len(format)))

\* fixed_sized_list_array::list_size_from_format: stoull(format.substr(3)).
\* A format shorter than 3 fails the assertion, or, unchecked, makes substr
\* throw std::out_of_range.
list_size_from_format(checks, format) ==
    IF Len(format) < 3
    THEN [status |-> IF checks THEN "assertion_failed" ELSE "thrown",
          what |-> "std::out_of_range"]
    ELSE stoull(SubSeq(format, 4, Len(format)))

Array(class, BIG, proxy, p_list_offsets, p_list_sizes, m_list_size) ==
    [status         |-> "ok",
     class          |-> class,
     BIG            |-> BIG,
     proxy          |-> proxy,
     p_flat_array   |-> make_flat_array(proxy),
     p_list_offsets |-> p_list_offsets,
     p_list_sizes   |-> p_list_sizes,
     m_list_size    |-> m_list_size]

\* list_array_crtp_base(arrow_proxy): p_flat_array(make_flat_array()); the
\* factory's exception leaves no array.
base_fails(proxy) == make_flat_array(proxy).layout.status # "made"

\* list_array_impl<BIG>::list_array_impl(arrow_proxy)
list_array_impl(BIG, proxy) ==
    IF proxy.status # "ok" THEN [status |-> proxy.status]
    ELSE IF base_fails(proxy) THEN [status |-> "thrown"]
    ELSE Array(IF BIG THEN "big_list_array" ELSE "list_array", BIG, proxy,
               make_list_offsets(proxy), None, None)

\* list_view_array_impl<BIG>::list_view_array_impl(arrow_proxy)
list_view_array_impl(BIG, proxy) ==
    IF proxy.status # "ok" THEN [status |-> proxy.status]
    ELSE IF base_fails(proxy) THEN [status |-> "thrown"]
    ELSE Array(IF BIG THEN "big_list_view_array" ELSE "list_view_array", BIG, proxy,
               list_view_make_list_offsets(proxy), make_list_sizes(proxy), None)

\* fixed_sized_list_array::fixed_sized_list_array(arrow_proxy)
fixed_sized_list_array(checks, proxy) ==
    IF proxy.status # "ok" THEN [status |-> proxy.status]
    ELSE IF base_fails(proxy) THEN [status |-> "thrown"]
    ELSE LET parsed == list_size_from_format(checks, proxy.format)
         IN  IF parsed.status # "ok" THEN [status |-> parsed.status]
             ELSE Array("fixed_sized_list_array", TRUE, proxy, None, None, parsed.value)

\* array_crtp_base::size(): the length of the proxy.
array_size(a) == a.proxy.length

\* array_bitmap_base::has_value(i): the validity bit i + offset of buffer 0.
has_value(a, i) == a.proxy.buffers[1][i + a.proxy.offset + 1]

(***************************************************************************)
(* value(i).  Reading p[i] through a pointer p takes the sizeof(offset_type)*)
(* bytes at p + i * sizeof(offset_type).                                   *)
(***************************************************************************)
\* What a read outside the buffer yields: no particular word.
Indeterminate == <<-1>>

load(proxy, ptr, i, w) ==
    LET bytes == proxy.buffers[ptr.buffer + 1]
        at    == ptr.byte + i * w
    IN  IF at + w <= Len(bytes) THEN SubSeq(bytes, at + 1, at + w) ELSE Indeterminate

\* list_array_impl<BIG>::offset_range with the pair reversed.
list_offset_range_swapped(a, i) ==
    LET w == OffsetWidth(a.BIG)
    IN  <<load(a.proxy, a.p_list_offsets, i + 1, w), load(a.proxy, a.p_list_offsets, i, w)>>

\* list_array_impl<BIG>::offset_range: (p_list_offsets[i], p_list_offsets[i + 1])
list_offset_range(a, i) ==
    LET w == OffsetWidth(a.BIG)
    IN  <<load(a.proxy, a.p_list_offsets, i, w), load(a.proxy, a.p_list_offsets, i + 1, w)>>

\* list_view_array_impl<BIG>::offset_range taking the next offset as the end.
list_view_offset_range_next(a, i) ==
    LET w == OffsetWidth(a.BIG)
    IN  <<load(a.proxy, a.p_list_offsets, i, w), load(a.proxy, a.p_list_offsets, i + 1, w)>>

\* list_view_array_impl<BIG>::offset_range:
\* (p_list_offsets[i], p_list_offsets[i] + p_list_sizes[i]) in offset_type.
list_view_offset_range(a, i) ==
    LET w      == OffsetWidth(a.BIG)
        offset == load(a.proxy, a.p_list_offsets, i, w)
        length == load(a.proxy, a.p_list_sizes, i, w)
    IN  <<offset,
          IF offset = Indeterminate \/ length = Indeterminate THEN Indeterminate
          ELSE WordAdd(offset, length)>>

\* fixed_sized_list_array::offset_range with the end one list short.
fixed_offset_range_short(a, i) ==
    LET offset == WordScale(i, a.m_list_size)
    IN  <<offset, offset>>

\* fixed_sized_list_array::offset_range: (i * m_list_size, i * m_list_size +
\* m_list_size) in std::uint64_t.
fixed_offset_range(a, i) ==
    LET offset == WordScale(i, a.m_list_size)
    IN  <<offset, WordAdd(offset, a.m_list_size)>>

\* derived_cast().offset_range(i)
offset_range(a, i) ==
    CASE a.class \in {"list_array", "big_list_array"}           -> list_offset_range(a, i)
      [] a.class \in {"list_view_array", "big_list_view_array"} -> list_view_offset_range(a, i)
      [] a.class = "fixed_sized_list_array"                      -> fixed_offset_range(a, i)

\* list_array_crtp_base::value(i): list_value{p_flat_array.get(), r.first,
\* r.second}, both ends cast to list_value::size_type (std::size_t).
value(a, i) ==
    LET r == offset_range(a, i)
    IN  [flat  |-> a.p_flat_array,
         begin |-> IF r[1] = Indeterminate THEN Indeterminate ELSE ZeroExtend(r[1], 8),
         end   |-> IF r[2] = Indeterminate THEN Indeterminate ELSE ZeroExtend(r[2], 8)]

\* A pointer to offset_type is aligned when its byte is a multiple of the width.
Aligned(a, ptr) == ptr = None \/ ptr.byte % OffsetWidth(a.BIG) = 0

\* What value(i) can do: the list_value, or, when a pointer it reads through
\* is misaligned, a bus error on machines that do not load unaligned words.
value_outcomes(a, i) ==
    {value(a, i)} \cup
    (IF Aligned(a, a.p_list_offsets) /\ Aligned(a, a.p_list_sizes) THEN {} ELSE {[fault |-> "bus_error"]})

(***************************************************************************)
(* Spec: a program that computes or takes an offsets buffer, builds a      *)
(* list, list-view or fixed-size-list array (through create_proxy, or from *)
(* a proxy an external producer hands over, possibly sliced), and reads    *)
(* value(i).                                                               *)
(***************************************************************************)
Entries == 0..MaxEntry

SizeSeqs == SeqsUpTo(Entries, MaxLen)

\* The flat arrays handed to create_proxy: their proxies.
\* A flat array of m 32-bit integers, all 0.
FlatArray(m) == [format |-> <<"i">>, length |-> m, values |-> [k \in 1..m |-> 0]]

FlatArrays == {FlatArray(m) : m \in 0..MaxFlat}

ValidityBools == SeqsUpTo(BOOLEAN, MaxLen)

\* validity_bitmap{}: the default argument of every create_proxy.
DefaultValidity == [kind |-> "rvalue", bitmap |-> dynamic_bitset_default]

AllZero(seq) == \A k \in 1..Len(seq) : seq[k] = 0

\* The validity argument does not meet the entries of the offsets and sizes
\* buffers anywhere in create_proxy: the arguments drawn vary one or the other.
Drawn(vin, offsets, sizes) ==
    \/ vin = DefaultValidity /\ Len(offsets) = Len(sizes)
    \/ AllZero(offsets) /\ AllZero(sizes)

ValidityInputs ==
    {[kind |-> k, bitmap |-> dynamic_bitset_range(bs)] :
        k \in {"rvalue", "cref"}, bs \in ValidityBools}
    \cup {[kind |-> "bools", range |-> bs] : bs \in ValidityBools}
    \cup {[kind |-> "markers", range |-> ms] : ms \in SeqsUpTo({0, 2}, MaxLen)}

\* Proxies of an external producer: a valid list or list-view array of
\* Len(sizes) elements, sliced at `offset`, all elements valid.
ExternalProxy(format, sizes, offset, buffers) ==
    [status     |-> "ok",
     id         |-> FirstId,
     format     |-> format,
     length     |-> Len(sizes) - offset,
     null_count |-> 0,
     offset     |-> offset,
     buffers    |-> <<[k \in 1..Len(sizes) |-> TRUE]>> \o buffers,
     children   |-> <<FlatArray(MaxFlat)>>]

\* A slice starts inside the array.
Slices == {s \in SizeSeqs \X (0..MaxOffset) : s[2] <= Len(s[1])}

ExternalListProxies ==
    {ExternalProxy(IF big THEN <<"+", "L">> ELSE <<"+", "l">>, s[1], s[2],
                   <<extract_storage(offset_from_sizes(big, s[1]))>>) :
        big \in BOOLEAN, s \in Slices}

ExternalListViewProxies ==
    {ExternalProxy(IF big THEN <<"+", "v", "L">> ELSE <<"+", "v", "l">>, s[1], s[2],
                   <<extract_storage(U8Buffer(OffsetWidth(big),
                                              SubSeq(<<0>> \o partial_sum(s[1], 0),
                                                     1, Len(s[1])))),
                     extract_storage(U8Buffer(OffsetWidth(big), s[1]))>>) :
        big \in BOOLEAN, s \in Slices}

\* Fixed-size-list proxies of an external producer: "+w:" and a suffix.
MaxSuffixLen == 2

SuffixChars == {"0", "1", "3", "-", "x"}

ExternalFixedProxies ==
    {[status     |-> "ok",
      id         |-> FirstId,
      format     |-> <<"+", "w", ":">> \o suffix,
      length     |-> n,
      null_count |-> 0,
      offset     |-> o,
      buffers    |-> <<[k \in 1..n + o |-> TRUE]>>,
      children   |-> <<FlatArray(MaxFlat)>>] :
        suffix \in SeqsUpTo(SuffixChars, MaxSuffixLen), n \in 0..MaxLen,
        o \in 0..MaxOffset}

Init ==
    /\ contracts \in BOOLEAN
    /\ BitmapIdle
    /\ EnsureIdle
    /\ FactoryIdle
    /\ ListIdle
    /\ AuxIdle

\* auto offsets = list_array::offset_from_sizes(sizes);
OffsetFromSizes ==
    /\ offs = None /\ arr = None
    /\ \E big \in BOOLEAN, sizes \in SizeSeqs :
        offs' = [from |-> "sizes", BIG |-> big, sizes |-> sizes,
                 buffer |-> offset_from_sizes(big, sizes)]
    /\ UNCHANGED <<contracts, auxVars, bitmapVars, ensureVars, factoryVars, arr, read>>

\* An offsets buffer the caller filled in: any entries, in any order.
TakeOffsets ==
    /\ offs = None /\ arr = None
    /\ \E big \in BOOLEAN, data \in SeqsUpTo(Entries, MaxLen + 1) :
        offs' = [from |-> "caller", BIG |-> big, sizes |-> <<>>,
                 buffer |-> U8Buffer(OffsetWidth(big), data)]
    /\ UNCHANGED <<contracts, auxVars, bitmapVars, ensureVars, factoryVars, arr, read>>

\* list_array_impl<BIG> a(std::move(flat), std::move(offsets), validity);
CreateList ==
    /\ offs # None /\ arr = None
    /\ \E flat \in FlatArrays, vin \in ValidityInputs :
        /\ Drawn(vin, offs.buffer.data, offs.buffer.data)
        /\ LET proxy == list_array_create_proxy(contracts, offs.BIG, flat,
                                                    offs.buffer, vin)
           IN  arr' = [proxy |-> proxy,
                       made  |-> list_array_impl(offs.BIG, proxy),
                       args  |-> [by |-> "create_proxy", family |-> "list",
                                  offsets |-> offs.buffer.data, sizes |-> offs.sizes,
                                  list_size |-> 0, validity |-> vin]]
    /\ offs' = None
    /\ UNCHANGED <<contracts, auxVars, bitmapVars, ensureVars, factoryVars, read>>

\* list_view_array_impl<BIG> a(std::move(flat), offsets, sizes, validity);
CreateListView ==
    /\ offs = None /\ arr = None
    /\ \E big \in BOOLEAN, flat \in FlatArrays, vin \in ValidityInputs,
          offsets \in SizeSeqs, sizes \in SizeSeqs :
        /\ Drawn(vin, offsets, sizes)
        /\ LET w     == OffsetWidth(big)
               proxy == list_view_array_create_proxy(contracts, big, flat,
                            U8Buffer(w, offsets), U8Buffer(w, sizes), vin)
           IN  arr' = [proxy |-> proxy,
                       made  |-> list_view_array_impl(big, proxy),
                       args  |-> [by |-> "create_proxy", family |-> "list_view",
                                  offsets |-> offsets, sizes |-> sizes,
                                  list_size |-> 0, validity |-> vin]]
    /\ UNCHANGED <<contracts, auxVars, bitmapVars, ensureVars, factoryVars, offs, read>>

\* fixed_sized_list_array a(list_size, std::move(flat), validity);
CreateFixed ==
    /\ offs = None /\ arr = None
    /\ \E list_size \in 0..MaxListSize, flat \in FlatArrays, vin \in ValidityInputs,
          ub \in DivisionByZero :
        /\ list_size # 0 => ub = "zero"
        /\ LET proxy == fixed_sized_list_array_create_proxy(contracts, list_size,
                                                                flat, vin, ub)
           IN  arr' = [proxy |-> proxy,
                       made  |-> fixed_sized_list_array(contracts, proxy),
                       args  |-> [by |-> "create_proxy", family |-> "fixed",
                                  offsets |-> <<>>, sizes |-> <<>>,
                                  list_size |-> list_size, validity |-> vin]]
    /\ UNCHANGED <<contracts, auxVars, bitmapVars, ensureVars, factoryVars, offs, read>>

\* list_array a(std::move(proxy)) on the proxy of an external producer.
AdoptList ==
    /\ offs = None /\ arr = None
    /\ \E proxy \in ExternalListProxies :
        arr' = [proxy |-> proxy,
                made  |-> list_array_impl(proxy.format = <<"+", "L">>, proxy),
                args  |-> [by |-> "proxy", family |-> "list"]]
    /\ UNCHANGED <<contracts, auxVars, bitmapVars, ensureVars, factoryVars, offs, read>>

\* list_view_array a(std::move(proxy)) on the proxy of an external producer.
AdoptListView ==
    /\ offs = None /\ arr = None
    /\ \E proxy \in ExternalListViewProxies :
        arr' = [proxy |-> proxy,
                made  |-> list_view_array_impl(proxy.format = <<"+", "v", "L">>, proxy),
                args  |-> [by |-> "proxy", family |-> "list_view"]]
    /\ UNCHANGED <<contracts, auxVars, bitmapVars, ensureVars, factoryVars, offs, read>>

\* fixed_sized_list_array a(std::move(proxy)) on the proxy of an external producer.
AdoptFixed ==
    /\ offs = None /\ arr = None
    /\ \E proxy \in ExternalFixedProxies :
        arr' = [proxy |-> proxy,
                made  |-> fixed_sized_list_array(contracts, proxy),
                args  |-> [by |-> "proxy", family |-> "fixed"]]
    /\ UNCHANGED <<contracts, auxVars, bitmapVars, ensureVars, factoryVars, offs, read>>

\* auto v = a[i].value(), i < a.size().
Value ==
    /\ arr # None
    /\ arr.made.status = "ok"
    /\ \E i \in 0..array_size(arr.made) - 1 :
        \E out \in value_outcomes(arr.made, i) :
            read' = [i |-> i, value |-> out]
    /\ UNCHANGED <<contracts, auxVars, bitmapVars, ensureVars, factoryVars, offs, arr>>

Next ==
    \/ OffsetFromSizes
    \/ TakeOffsets
    \/ CreateList
    \/ CreateListView
    \/ CreateFixed
    \/ AdoptList
    \/ AdoptListView
    \/ AdoptFixed
    \/ Value

Spec == Init /\ [][Next]_vars

(***************************************************************************)
(* ArrowSchema.  A descriptor is the C struct; a pointer is a record,      *)
(* NullPtr the null one.  The heap holds what the descriptor points to:    *)
(* the private data (how often it was deleted) and, per child and for the  *)
(* dictionary, how often its release callback ran.                         *)
(***************************************************************************)
MaxChildren == 2

MaxReleases == 2

NullPtr == [ptr |-> "null"]

\* std::addressof(release_arrow_schema)
ReleaseFn == [ptr |-> "release_arrow_schema"]

ChildPtr(i) == [ptr |-> "child", id |-> i]

ChildrenArray(elems) == [ptr |-> "children", elems |-> elems]

DictionaryPtr == [ptr |-> "dictionary"]

\* ArrowSchema{}: all integers 0, all pointers null.
ArrowSchemaZero ==
    [format       |-> NullPtr,
     name         |-> NullPtr,
     metadata     |-> NullPtr,
     flags        |-> 0,
     n_children   |-> 0,
     children     |-> NullPtr,
     dictionary   |-> NullPtr,
     release      |-> NullPtr,
     private_data |-> NullPtr]

\* default_arrow_schema_unique_ptr(): new ArrowSchema{}.
default_arrow_schema_unique_ptr == ArrowSchemaZero

\* The heap before a schema is made: no private data, the caller's children
\* and dictionary not released.
FreshHeap(n) ==
    [private    |-> [allocated |-> FALSE, deletes |-> 0],
     children   |-> [i \in 1..n |-> 0],
     dictionary |-> 0]

\* private_data->format_ptr(), name_ptr(), metadata_ptr(): the string held by
\* the private data, null for an absent optional.
MemberPtr(member, opt) ==
    IF opt = <<>> THEN NullPtr ELSE [ptr |-> member, str |-> opt[1]]

\* make_arrow_schema_unique_ptr: the two assertions, then the struct filled
\* in.  Returns [status, desc, heap].
make_arrow_schema_unique_ptr(checks, format, name, metadata, flags, n_children, children, dictionary) ==
    IF checks /\ format = <<>>
    THEN [status |-> "assertion_failed", desc |-> None, heap |-> FreshHeap(n_children)]
    ELSE IF /\ checks
            /\ children # NullPtr
            /\ \E i \in 1..n_children : children.elems[i] = NullPtr
    THEN [status |-> "assertion_failed", desc |-> None, heap |-> FreshHeap(n_children)]
    ELSE
        [status |-> "ok",
         desc   |-> [format       |-> MemberPtr("format_ptr", <<format>>),
                     name         |-> MemberPtr("name_ptr", name),
                     metadata     |-> MemberPtr("metadata_ptr", metadata),
                     flags        |-> IF flags = <<>> THEN 0 ELSE flags[1],
                     n_children   |-> n_children,
                     children     |-> children,
                     dictionary   |-> dictionary,
                     release      |-> ReleaseFn,
                     private_data |-> [ptr |-> "private_data"]],
         heap   |-> [FreshHeap(n_children) EXCEPT !.private.allocated = TRUE]]

Event(what) == [event |-> what, child |-> 0]

ChildReleased(i) == [event |-> "release_child", child |-> i]

\* The loop of release_common_arrow over the children: each non-null child
\* has its release callback run.
RECURSIVE release_children(_, _, _)
release_children(elems, i, acc) ==
    IF i > Len(elems) THEN acc
    ELSE IF elems[i] = NullPtr THEN release_children(elems, i + 1, acc)
    ELSE release_children(elems, i + 1,
            [heap   |-> [acc.heap EXCEPT !.children[elems[i].id] = @ + 1],
             events |-> Append(acc.events, ChildReleased(elems[i].id))])

\* release_common_arrow(schema): the dictionary, when there is one, and the
\* children of the children array, when there is one, are released.
release_common_arrow(desc, heap) ==
    LET d == IF desc.dictionary = NullPtr
             THEN [heap |-> heap, events |-> <<>>]
             ELSE [heap   |-> [heap EXCEPT !.dictionary = @ + 1],
                   events |-> <<Event("release_dictionary")>>]
    IN  IF desc.children = NullPtr THEN d
        ELSE release_children(desc.children.elems, 1, d)

\* release_arrow_schema leaving the struct as it is.
release_arrow_schema_no_reset(checks, desc, heap) ==
    IF checks /\ desc.release # ReleaseFn
    THEN [result |-> "assertion_failed", desc |-> desc, heap |-> heap, events |-> <<>>]
    ELSE LET freed  == desc.private_data # NullPtr
             common == release_common_arrow(desc,
                           IF freed THEN [heap EXCEPT !.private.deletes = @ + 1] ELSE heap)
         IN  [result |-> "returned",
              desc   |-> desc,
              heap   |-> common.heap,
              events |-> (IF freed THEN <<Event("delete_private_data")>> ELSE <<>>)
                            \o common.events]

\* release_arrow_schema(schema), schema not null: the assertion on
\* schema->release, delete of the private data, release_common_arrow,
\* *schema = {}.
release_arrow_schema(checks, desc, heap) ==
    IF checks /\ desc.release # ReleaseFn
    THEN [result |-> "assertion_failed", desc |-> desc, heap |-> heap, events |-> <<>>]
    ELSE LET freed  == desc.private_data # NullPtr
             common == release_common_arrow(desc,
                           IF freed THEN [heap EXCEPT !.private.deletes = @ + 1] ELSE heap)
         IN  [result |-> "returned",
              desc   |-> ArrowSchemaZero,
              heap   |-> common.heap,
              events |-> (IF freed THEN <<Event("delete_private_data")>> ELSE <<>>)
                            \o common.events \o <<Event("reset")>>]

(***************************************************************************)
(* SchemaSpec: a schema is made (or default-constructed), then             *)
(* release_arrow_schema is called on it, more than once.                   *)
(***************************************************************************)
SchemaFormats == {<<>>, <<"i">>, <<"+", "l">>}

\* std::optional arguments: <<>> is std::nullopt.
SchemaNames == {<<>>, <<"a">>}

\* std::optional<ArrowFlag>: std::nullopt or a flag (2 is ArrowFlag::NULLABLE).
SchemaFlags == {<<>>, <<2>>}

\* The children argument: a null array pointer, or an array of n pointers,
\* each null or pointing to the caller's child i.
ChildrenArgs(n) ==
    {NullPtr} \cup
    {ChildrenArray([i \in 1..n |-> IF i \in present THEN ChildPtr(i) ELSE NullPtr]) :
        present \in SUBSET (1..n)}

NoCalls == [calls |-> 0, result |-> "none", pre |-> None, pre_heap |-> None, events |-> <<>>]

SchemaInit ==
    /\ contracts \in BOOLEAN
    /\ BitmapIdle
    /\ EnsureIdle
    /\ FactoryIdle
    /\ ListIdle
    /\ LaterIdle
    /\ schema = None
    /\ sch_heap = None
    /\ sch_log = NoCalls

\* auto schema = make_arrow_schema_unique_ptr(format, name, std::nullopt,
\*                                            flags, n_children, children, dictionary);
MakeSchema ==
    /\ schema = None
    /\ \E format \in SchemaFormats, name \in SchemaNames, flags \in SchemaFlags,
          n_children \in 0..MaxChildren, dictionary \in {NullPtr, DictionaryPtr} :
        \E children \in ChildrenArgs(n_children) :
            LET made == make_arrow_schema_unique_ptr(contracts, format, name, <<>>, flags,
                                                     n_children, children, dictionary)
            IN  /\ schema' = [by     |-> "make",
                              status |-> made.status,
                              desc   |-> made.desc,
                              args   |-> [format |-> format, n_children |-> n_children,
                                          children |-> children, dictionary |-> dictionary]]
                /\ sch_heap' = made.heap
    /\ UNCHANGED <<contracts, bitmapVars, ensureVars, factoryVars, listVars, laterVars, sch_log>>

\* auto schema = default_arrow_schema_unique_ptr();
DefaultSchema ==
    /\ schema = None
    /\ schema' = [by     |-> "default",
                  status |-> "ok",
                  desc   |-> default_arrow_schema_unique_ptr,
                  args   |-> None]
    /\ sch_heap' = FreshHeap(0)
    /\ UNCHANGED <<contracts, bitmapVars, ensureVars, factoryVars, listVars, laterVars, sch_log>>

\* release_arrow_schema(schema.get()); a failed assertion ends the program.
ReleaseSchema ==
    /\ schema # None
    /\ schema.status = "ok"
    /\ sch_log.result # "assertion_failed"
    /\ sch_log.calls < MaxReleases
    /\ LET done == release_arrow_schema(contracts, schema.desc, sch_heap)
       IN  /\ schema' = [schema EXCEPT !.desc = done.desc]
           /\ sch_heap' = done.heap
           /\ sch_log' = [calls    |-> sch_log.calls + 1,
                          result   |-> done.result,
                          pre      |-> schema.desc,
                          pre_heap |-> sch_heap,
                          events   |-> done.events]
    /\ UNCHANGED <<contracts, bitmapVars, ensureVars, factoryVars, listVars, laterVars>>

SchemaNext == MakeSchema \/ DefaultSchema \/ ReleaseSchema

SchemaSpec == SchemaInit /\ [][SchemaNext]_vars

(***************************************************************************)
(* Copies.  An array owns its proxy and the proxy owns an allocation: its  *)
(* buffers and its children.  The copy constructor and operator= of        *)
(* array_crtp_base copy the proxy; a copied proxy owns a fresh allocation  *)
(* whose buffers and children hold the same contents.                      *)
(***************************************************************************)
MaxWrites == 1

\* The allocation of the array assigned to, and of the next proxy made.
SecondId == 2

ThirdId == 3

\* arrow_proxy(const arrow_proxy&): a deep copy into the allocation `fresh`.
arrow_proxy_copy(proxy, fresh) == [proxy EXCEPT !.id = fresh]

\* The copy of the base with p_flat_array copied from rhs, member by member.
list_array_crtp_base_copy_memberwise(rhs, fresh) ==
    [rhs EXCEPT !.proxy = arrow_proxy_copy(rhs.proxy, fresh)]

\* list_array_crtp_base(const self_type& rhs): base_type(rhs),
\* p_flat_array(make_flat_array()).  The members of the derived class are
\* not yet initialised: they are what the derived constructor writes next.
list_array_crtp_base_copy(rhs, fresh) ==
    LET proxy == arrow_proxy_copy(rhs.proxy, fresh)
    IN  [rhs EXCEPT !.proxy = proxy, !.p_flat_array = make_flat_array(proxy)]

\* The copy constructor the compiler would generate for list_array_impl:
\* base_type(rhs), p_list_offsets(rhs.p_list_offsets).
list_array_impl_copy_raw(rhs, fresh) == list_array_crtp_base_copy(rhs, fresh)

\* list_array_impl<BIG>::list_array_impl(const self_type& rhs): base_type(rhs),
\* p_list_offsets(make_list_offsets()).
list_array_impl_copy(rhs, fresh) ==
    LET base == list_array_crtp_base_copy(rhs, fresh)
    IN  [base EXCEPT !.p_list_offsets = make_list_offsets(base.proxy)]

\* list_view_array_impl<BIG>::list_view_array_impl(const self_type& rhs)
list_view_array_impl_copy(rhs, fresh) ==
    LET base == list_array_crtp_base_copy(rhs, fresh)
    IN  [base EXCEPT !.p_list_offsets = list_view_make_list_offsets(base.proxy),
                     !.p_list_sizes = make_list_sizes(base.proxy)]

\* fixed_sized_list_array(const self_type&) = default: the base, then
\* m_list_size by value.
fixed_sized_list_array_copy(rhs, fresh) ==
    LET base == list_array_crtp_base_copy(rhs, fresh)
    IN  [base EXCEPT !.m_list_size = rhs.m_list_size]

\* list_array_crtp_base::operator=: base_type::operator=(rhs);
\* p_flat_array = make_flat_array().
list_array_crtp_base_assign(lhs, rhs, fresh) ==
    LET proxy == arrow_proxy_copy(rhs.proxy, fresh)
    IN  [lhs EXCEPT !.proxy = proxy, !.p_flat_array = make_flat_array(proxy)]

\* list_array_impl<BIG>::operator=.  this != &rhs: two objects own two
\* allocations.
list_array_impl_assign(lhs, rhs, fresh) ==
    IF lhs.proxy.id = rhs.proxy.id THEN lhs
    ELSE LET base == list_array_crtp_base_assign(lhs, rhs, fresh)
         IN  [base EXCEPT !.p_list_offsets = make_list_offsets(base.proxy)]

\* list_view_array_impl<BIG>::operator=
list_view_array_impl_assign(lhs, rhs, fresh) ==
    IF lhs.proxy.id = rhs.proxy.id THEN lhs
    ELSE LET base == list_array_crtp_base_assign(lhs, rhs, fresh)
         IN  [base EXCEPT !.p_list_offsets = list_view_make_list_offsets(base.proxy),
                          !.p_list_sizes = make_list_sizes(base.proxy)]

\* fixed_sized_list_array& operator=(const self_type&) = default
fixed_sized_list_array_assign(lhs, rhs, fresh) ==
    LET base == list_array_crtp_base_assign(lhs, rhs, fresh)
    IN  [base EXCEPT !.m_list_size = rhs.m_list_size]

IsList(a) == a.class \in {"list_array", "big_list_array"}

IsListView(a) == a.class \in {"list_view_array", "big_list_view_array"}

\* b(a)
copy_construct(a, fresh) ==
    CASE IsList(a)     -> list_array_impl_copy(a, fresh)
      [] IsListView(a) -> list_view_array_impl_copy(a, fresh)
      [] OTHER         -> fixed_sized_list_array_copy(a, fresh)

\* b = a
copy_assign(b, a, fresh) ==
    CASE IsList(a)     -> list_array_impl_assign(b, a, fresh)
      [] IsListView(a) -> list_view_array_impl_assign(b, a, fresh)
      [] OTHER         -> fixed_sized_list_array_assign(b, a, fresh)

\* What the elements of an array show: has_value(i) and value(i) at every
\* index, and the elements of the flat child.
Observed(a) ==
    [elements |-> [i \in 0..array_size(a) - 1 |-> <<has_value(a, i), value_outcomes(a, i)>>],
     child    |-> a.proxy.children[1].values]

\* A store to validity bit `bit` of the allocation `id`, seen by the object
\* `a` when that allocation is the one its proxy owns.
store_validity(a, id, bit) ==
    IF a.status = "ok" /\ a.proxy.id = id
    THEN [a EXCEPT !.proxy.buffers[1][bit] = FALSE]
    ELSE a

\* A store to element k of the flat child of the allocation `id`.
store_child(a, id, k) ==
    IF a.status = "ok" /\ a.proxy.id = id
    THEN [a EXCEPT !.proxy.children[1].values[k] = 1]
    ELSE a

\* The arrays copied: a list or list-view array on a sliced proxy, a
\* fixed-size-list array of lists of list_size elements.
AdoptedArrays ==
    {list_array_impl(proxy.format = <<"+", "L">>, proxy) : proxy \in ExternalListProxies}
    \cup {list_view_array_impl(proxy.format = <<"+", "v", "L">>, proxy) :
              proxy \in ExternalListViewProxies}

FixedArrays(checks) ==
    {fixed_sized_list_array(checks,
         fixed_sized_list_array_create_proxy(checks, list_size, flat, DefaultValidity, "zero")) :
        list_size \in 1..MaxFlat, flat \in FlatArrays}

\* The array assigned to: an empty array of the class of `a`, on its own
\* allocation.
EmptyLike(a) ==
    LET flat  == FlatArray(0)
        made  == CASE IsList(a) ->
                         list_array_impl(a.BIG, list_array_create_proxy(FALSE, a.BIG, flat,
                             offset_from_sizes(a.BIG, <<>>), DefaultValidity))
                   [] IsListView(a) ->
                         list_view_array_impl(a.BIG, list_view_array_create_proxy(FALSE, a.BIG,
                             flat, U8Buffer(OffsetWidth(a.BIG), <<>>),
                             U8Buffer(OffsetWidth(a.BIG), <<>>), DefaultValidity))
                   [] OTHER ->
                         fixed_sized_list_array(FALSE,
                             fixed_sized_list_array_create_proxy(FALSE, 1, flat,
                                                                 DefaultValidity, "zero"))
    IN  copy_construct(made, SecondId)

CopyInit ==
    /\ contracts \in BOOLEAN
    /\ BitmapIdle
    /\ EnsureIdle
    /\ FactoryIdle
    /\ SchemaIdle
    /\ BuilderIdle
    /\ TailIdle
    /\ offs = None
    /\ read = None
    /\ \E a \in AdoptedArrays \cup FixedArrays(contracts) :
        arr = [proxy |-> a.proxy, made |-> a, args |-> [by |-> "proxy", family |-> a.class]]
    /\ brr = None
    /\ live = {FirstId}

\* auto b = a;  (the copy constructor)
CopyConstruct ==
    /\ brr = None
    /\ arr.made.status = "ok"
    /\ brr' = [by       |-> "constructor",
               made     |-> copy_construct(arr.made, SecondId),
               from     |-> arr.made.proxy.id,
               observed |-> Observed(arr.made),
               writes   |-> 0,
               fault    |-> FALSE]
    /\ live' = live \cup {SecondId}
    /\ UNCHANGED <<contracts, bitmapVars, ensureVars, factoryVars, schemaVars, listVars, builderVars, tailVars>>

\* b = a;  for an array b made before.  operator= of the proxy releases the
\* allocation b owned.
CopyAssign ==
    /\ brr = None
    /\ arr.made.status = "ok"
    /\ brr' = [by       |-> "assignment",
               made     |-> copy_assign(EmptyLike(arr.made), arr.made, ThirdId),
               from     |-> arr.made.proxy.id,
               observed |-> Observed(arr.made),
               writes   |-> 0,
               fault    |-> FALSE]
    /\ live' = live \cup {ThirdId}
    /\ UNCHANGED <<contracts, bitmapVars, ensureVars, factoryVars, schemaVars, listVars, builderVars, tailVars>>

\* A validity bit of b cleared in place: the bit lives in buffer 0 of the
\* allocation b's proxy owns.
WriteValidity ==
    /\ brr # None
    /\ brr.writes < MaxWrites
    /\ \E i \in 0..array_size(brr.made) - 1 :
        LET id  == brr.made.proxy.id
            bit == i + brr.made.proxy.offset + 1
        IN  /\ has_value(brr.made, i)
            /\ brr' = [brr EXCEPT !.made = store_validity(@, id, bit),
                                  !.writes = @ + 1,
                                  !.fault = @ \/ id \notin live]
            /\ arr' = [arr EXCEPT !.made = store_validity(@, id, bit)]
    /\ UNCHANGED <<contracts, bitmapVars, ensureVars, factoryVars, schemaVars, builderVars, tailVars, offs, read, live>>

\* An element of the flat child written through b.raw_flat_array(): the
\* child is a view of child 0 of the allocation p_flat_array was made on.
WriteChild ==
    /\ brr # None
    /\ brr.writes < MaxWrites
    /\ \E k \in 1..brr.made.proxy.children[1].length :
        LET id == brr.made.p_flat_array.view_of.proxy
        IN  /\ brr.made.proxy.children[1].values[k] = 0
            /\ brr' = [brr EXCEPT !.made = store_child(@, id, k),
                                  !.writes = @ + 1,
                                  !.fault = @ \/ id \notin live]
            /\ arr' = [arr EXCEPT !.made = store_child(@, id, k)]
    /\ UNCHANGED <<contracts, bitmapVars, ensureVars, factoryVars, schemaVars, builderVars, tailVars, offs, read, live>>

\* a goes out of scope: its proxy releases the allocation it owns.
DestroyOriginal ==
    /\ brr # None
    /\ arr.made.status = "ok"
    /\ arr' = [arr EXCEPT !.made = [status |-> "destroyed"]]
    /\ live' = live \ {brr.from}
    /\ UNCHANGED <<contracts, bitmapVars, ensureVars, factoryVars, schemaVars, builderVars, tailVars, offs, read, brr>>

CopyNext == CopyConstruct \/ CopyAssign \/ WriteValidity \/ WriteChild \/ DestroyOriginal

CopySpec == CopyInit /\ [][CopyNext]_vars

(***************************************************************************)
(* The builder.  An element of a range handed to build() is a nullable:    *)
(* [has, v], the flag and the value; a value that is not nullable is one   *)
(* whose flag is TRUE.  sparrow::nullval holds the default value of the    *)
(* type: 0, the empty range, the array of N default elements.  A layout    *)
(* of primitives keeps its validity bits in buffer 0 and its data in       *)
(* buffer 1; a binary layout keeps validity, offsets and bytes.            *)
(***************************************************************************)
MaxOuter == 2

MaxArity == 2

nullval(default) == [has |-> FALSE, v |-> default]

Some(x) == [has |-> TRUE, v |-> x]

\* The validity flags of the elements of a range.
where_valid(v) == [k \in 1..Len(v) |-> v[k].has]

\* The values of the elements of a range, the flags dropped.
ensure_value_range(v) == [k \in 1..Len(v) |-> v[k].v]

\* The concatenation of the ranges of a range, in order.
RECURSIVE join(_)
join(ranges) == IF ranges = <<>> THEN <<>> ELSE Head(ranges) \o join(Tail(ranges))

range_sizes(ranges) == [k \in 1..Len(ranges) |-> Len(ranges[k])]

BoolRange(v) == [kind |-> "bools", range |-> where_valid(v)]

\* build() of a range of primitives or nullable primitives: primitive_array.
build_primitive(checks, v) ==
    LET vb == ensure_validity_bitmap(checks, Len(v), BoolRange(v))
    IN  IF vb.status # "ok" THEN [status |-> vb.status]
        ELSE [status |-> "ok",
              class  |-> "primitive_array",
              BIG    |-> FALSE,
              proxy  |-> [status |-> "ok", id |-> FirstId, format |-> <<"i">>,
                          length |-> Len(v), null_count |-> null_count(vb.bitmap),
                          offset |-> 0,
                          buffers |-> <<vb.bitmap.bits, ensure_value_range(v)>>,
                          children |-> <<>>]]

\* array(std::move(child)): the flat array a create_proxy takes.
flat_values(child) ==
    [format   |-> child.proxy.format,
     length   |-> child.proxy.length,
     values   |-> child.proxy.buffers[2],
     validity |-> child.proxy.buffers[1]]

\* build() of a range of ranges: one flat child from the concatenation of
\* the inner ranges, offsets from their sizes, list_array.
build_list(checks, v) ==
    LET inner == ensure_value_range(v)
        child == build_primitive(checks, join(inner))
    IN  IF child.status # "ok" THEN child
        ELSE list_array_impl(FALSE,
                 list_array_create_proxy(checks, FALSE, flat_values(child),
                                         offset_from_sizes(FALSE, range_sizes(inner)),
                                         BoolRange(v)))

\* build() of a range of arrays of N elements: fixed_sized_list_array of N
\* over the concatenation of the arrays.
build_fixed(checks, N, v, ub) ==
    LET inner == ensure_value_range(v)
        child == build_primitive(checks, join(inner))
    IN  IF child.status # "ok" THEN child
        ELSE fixed_sized_list_array(checks,
                 fixed_sized_list_array_create_proxy(checks, N, flat_values(child),
                                                     BoolRange(v), ub))

\* build() of a range of strings: offsets over the bytes of the strings.
build_string(checks, v) ==
    LET inner == ensure_value_range(v)
        vb    == ensure_validity_bitmap(checks, Len(v), BoolRange(v))
    IN  IF vb.status # "ok" THEN [status |-> vb.status]
        ELSE [status |-> "ok",
              class  |-> "variable_size_binary_array",
              BIG    |-> FALSE,
              proxy  |-> [status |-> "ok", id |-> FirstId, format |-> <<"u">>,
                          length |-> Len(v), null_count |-> null_count(vb.bitmap),
                          offset |-> 0,
                          buffers |-> <<vb.bitmap.bits,
                                        extract_storage(offset_buffer_from_sizes(
                                            OffsetWidth(FALSE), range_sizes(inner))),
                                        join(inner)>>,
                          children |-> <<>>]]

\* The number a word holds.
RECURSIVE word_value(_)
word_value(word) == IF word = <<>> THEN 0 ELSE Head(word) + 256 * word_value(Tail(word))

\* Element k of the flat child of a list-family layout, as a nullable.
child_at(a, k) ==
    [has |-> a.proxy.children[1].validity[k + 1], v |-> a.proxy.children[1].values[k + 1]]

\* The elements of a list_value: (*p_flat_array)[begin + j], j < end - begin.
list_value_elements(a, lv) ==
    LET begin == word_value(lv.begin)
        end   == word_value(lv.end)
    IN  [j \in 1..end - begin |-> child_at(a, begin + j - 1)]

\* The bytes of element i of a binary layout: [offsets[i], offsets[i + 1]).
binary_value(a, i) ==
    LET w     == OffsetWidth(a.BIG)
        begin == word_value(SubSeq(a.proxy.buffers[2], i * w + 1, i * w + w))
        end   == word_value(SubSeq(a.proxy.buffers[2], (i + 1) * w + 1, (i + 1) * w + w))
    IN  SubSeq(a.proxy.buffers[3], begin + 1, end)

\* a[i]: the nullable of the flag has_value(i) and the value at i.
element(a, i) ==
    [has |-> has_value(a, i),
     v   |-> CASE a.class = "primitive_array" -> a.proxy.buffers[2][i + 1]
               [] a.class = "variable_size_binary_array" -> binary_value(a, i)
               [] OTHER -> list_value_elements(a, value(a, i))]

\* nullable::value(): the value, or BadAccess when the flag is false.
nullable_value(n) ==
    IF n.has THEN [status |-> "ok", value |-> n.v] ELSE [status |-> "BadAccess"]

\* The ranges built: integers 1 and 2, characters a and b, each nullable.
Primitives == {Some(1), Some(2), nullval(0)}

PrimitiveRanges == SeqsUpTo(Primitives, MaxOuter)

\* The elements of an inner range: a value or a null; and the range [1, 2].
InnerElements == {Some(1), nullval(0)}

InnerRanges == SeqsUpTo(InnerElements, MaxOuter) \cup {<<Some(1), Some(2)>>}

ListRanges == SeqsUpTo({Some(r) : r \in InnerRanges} \cup {nullval(<<>>)}, MaxOuter)

StringRanges ==
    SeqsUpTo({Some(str) : str \in SeqsUpTo({"a", "b"}, MaxOuter)} \cup {nullval(<<>>)},
             MaxOuter)

\* std::array<nullable<int>, N>: N elements; the default one holds N nulls.
FixedRanges(N) ==
    SeqsUpTo({Some(t) : t \in [1..N -> InnerElements]}
                 \cup {nullval([k \in 1..N |-> nullval(0)])}, MaxOuter)

BuilderInit ==
    /\ contracts \in BOOLEAN
    /\ BitmapIdle
    /\ EnsureIdle
    /\ FactoryIdle
    /\ ListIdle
    /\ SchemaIdle
    /\ CopyIdle
    /\ TailIdle
    /\ built = None
    /\ elem = None

\* auto arr = sparrow::build(v), v a range of (nullable) primitives.
BuildPrimitive ==
    /\ built = None
    /\ \E v \in PrimitiveRanges :
        built' = [shape |-> "primitive", arity |-> 0, input |-> v,
                  layout |-> build_primitive(contracts, v)]
    /\ UNCHANGED <<contracts, bitmapVars, ensureVars, factoryVars, listVars, schemaVars, copyVars, tailVars, elem>>

\* auto arr = sparrow::build(v), v a range of (nullable) ranges.
BuildList ==
    /\ built = None
    /\ \E v \in ListRanges :
        built' = [shape |-> "list", arity |-> 0, input |-> v,
                  layout |-> build_list(contracts, v)]
    /\ UNCHANGED <<contracts, bitmapVars, ensureVars, factoryVars, listVars, schemaVars, copyVars, tailVars, elem>>

\* auto arr = sparrow::build(v), v a range of (nullable) std::array<T, N>.
BuildFixed ==
    /\ built = None
    /\ \E N \in 0..MaxArity, ub \in DivisionByZero :
        /\ N # 0 => ub = "zero"
        /\ \E v \in FixedRanges(N) :
            built' = [shape |-> "fixed", arity |-> N, input |-> v,
                      layout |-> build_fixed(contracts, N, v, ub)]
    /\ UNCHANGED <<contracts, bitmapVars, ensureVars, factoryVars, listVars, schemaVars, copyVars, tailVars, elem>>

\* auto arr = sparrow::build(v), v a range of (nullable) strings.
BuildString ==
    /\ built = None
    /\ \E v \in StringRanges :
        built' = [shape |-> "string", arity |-> 0, input |-> v,
                  layout |-> build_string(contracts, v)]
    /\ UNCHANGED <<contracts, bitmapVars, ensureVars, factoryVars, listVars, schemaVars, copyVars, tailVars, elem>>

\* auto x = arr[i]; x.has_value(); x.value();  i < arr.size().
ReadElement ==
    /\ built # None
    /\ built.layout.status = "ok"
    /\ \E i \in 0..array_size(built.layout) - 1 :
        LET x == element(built.layout, i)
        IN  elem' = [i |-> i, has_value |-> x.has, value |-> nullable_value(x)]
    /\ UNCHANGED <<contracts, bitmapVars, ensureVars, factoryVars, listVars, schemaVars, copyVars, tailVars, built>>

BuilderNext == BuildPrimitive \/ BuildList \/ BuildFixed \/ BuildString \/ ReadElement

BuilderSpec == BuilderInit /\ [][BuilderNext]_vars

(***************************************************************************)
(* null_array.  The array keeps nothing but its proxy; an iterator is the  *)
(* index it stands at and every element is the null nullable.  A           *)
(* std::size_t is written as the int64 with the same 64 bits, so the casts *)
(* between size_t and int64_t keep the number they are given.              *)
(***************************************************************************)
MaxNullLen == 2

\* The variables of the machines before the null machine, and the variables
\* the null machine leaves alone.
headVars == <<contracts, bitmapVars, ensureVars, factoryVars, listVars, schemaVars, copyVars, builderVars>>

nullOthers == <<headVars, fslVars, malVars, ownVars>>

\* What an optional<string_view> argument holds when it is std::nullopt.
nullopt == <<>>

\* make_arrow_array(length, null_count, offset, buffers, n_children, ...) and
\* make_arrow_schema(format, name, metadata, ...), bound in an arrow_proxy.
arrow_proxy(format, name, metadata, length, nulls, offset, buffers, children) ==
    [status     |-> "ok",
     id         |-> FirstId,
     format     |-> format,
     name       |-> name,
     metadata   |-> metadata,
     length     |-> length,
     null_count |-> nulls,
     offset     |-> offset,
     buffers    |-> buffers,
     children   |-> children]

\* null_array::create_proxy with a null count of 0.
null_array_create_proxy_no_nulls(length, name, metadata) ==
    arrow_proxy(<<"n">>, name, metadata, length, 0, 0, <<>>, <<>>)

\* null_array::create_proxy
null_array_create_proxy(length, name, metadata) ==
    arrow_proxy(<<"n">>, name, metadata, length, length, 0, <<>>, <<>>)

\* null_array::null_array(length, name, metadata)
null_array(length, name, metadata) ==
    [class |-> "null_array", m_proxy |-> null_array_create_proxy(length, name, metadata)]

\* null_array::size(): m_proxy.length()
null_array_size(a) == a.m_proxy.length

\* null_array::ssize(): static_cast<difference_type>(size())
null_array_ssize(a) == null_array_size(a)

\* null_array::begin(): iterator(0)
null_array_begin(a) == 0

\* null_array::end(): iterator(ssize())
null_array_end(a) == null_array_ssize(a)

\* *it for an iterator of a null_array: the null element, whatever the index.
null_element(it) == nullval(0)

\* for (auto it = a.begin(); it != a.end(); ++it) visit(*it);
RECURSIVE null_array_visit(_, _)
null_array_visit(it, last) ==
    IF it = last THEN <<>> ELSE <<null_element(it)>> \o null_array_visit(it + 1, last)

\* null_array::operator[] returning the element without the assertion.
null_array_subscript_unasserted(checks, a, i) ==
    [status |-> "ok", value |-> null_element(null_array_begin(a))]

\* null_array::operator[](i): SPARROW_ASSERT_TRUE(i < size()); *(begin()).
null_array_subscript(checks, a, i) ==
    IF checks /\ ~(i < null_array_size(a)) THEN [status |-> "assertion_failed"]
    ELSE [status |-> "ok", value |-> null_element(null_array_begin(a))]

\* operator==(const null_array&, const null_array&)
null_array_equal(lhs, rhs) == null_array_size(lhs) = null_array_size(rhs)

OptionalStrings == {nullopt, <<"x">>}

NullInit ==
    /\ contracts \in BOOLEAN
    /\ BitmapIdle
    /\ EnsureIdle
    /\ FactoryIdle
    /\ ListIdle
    /\ SchemaIdle
    /\ CopyIdle
    /\ BuilderIdle
    /\ nul = None
    /\ nul_op = None
    /\ FslIdle
    /\ MalIdle
    /\ OwnIdle

\* No assertion has ended the program.
NullRunning ==
    IF nul_op = None THEN TRUE
    ELSE IF nul_op.op # "subscript" THEN TRUE
    ELSE nul_op.result.status = "ok"

\* null_array a(length, name, metadata);
MakeNull ==
    /\ nul = None
    /\ \E length \in 0..MaxNullLen, name \in OptionalStrings, metadata \in OptionalStrings :
        nul' = [a    |-> null_array(length, name, metadata),
                args |-> [length |-> length, name |-> name, metadata |-> metadata],
                b    |-> None]
    /\ UNCHANGED <<nullOthers, nul_op>>

\* null_array b(length, name, metadata);
MakeOtherNull ==
    /\ nul # None
    /\ nul.b = None
    /\ \E length \in 0..MaxNullLen, name \in OptionalStrings, metadata \in OptionalStrings :
        nul' = [nul EXCEPT !.b = null_array(length, name, metadata)]
    /\ UNCHANGED <<nullOthers, nul_op>>

\* a[i], for any index of the type; a failed assertion ends the program.
SubscriptNull ==
    /\ nul # None
    /\ NullRunning
    /\ \E i \in 0..MaxNullLen + 1 :
        nul_op' = [op |-> "subscript", i |-> i,
                   result |-> null_array_subscript(contracts, nul.a, i)]
    /\ UNCHANGED <<nullOthers, nul>>

\* for (auto x : a) ...
IterateNull ==
    /\ nul # None
    /\ NullRunning
    /\ nul_op' = [op |-> "iterate",
                  visited |-> null_array_visit(null_array_begin(nul.a), null_array_end(nul.a))]
    /\ UNCHANGED <<nullOthers, nul>>

\* a == b
CompareNull ==
    /\ nul # None
    /\ nul.b # None
    /\ NullRunning
    /\ nul_op' = [op |-> "equal", result |-> null_array_equal(nul.a, nul.b)]
    /\ UNCHANGED <<nullOthers, nul>>

NullNext == MakeNull \/ MakeOtherNull \/ SubscriptNull \/ IterateNull \/ CompareNull

NullSpec == NullInit /\ [][NullNext]_vars

(***************************************************************************)
(* fixed_size_layout<T>.  The layout keeps a pointer to its array_data;    *)
(* an array_data is its length, offset, bitmap and value buffer, a pointer *)
(* into the buffer or the bitmap the index it stands at.  The assert()s    *)
(* of the class are compiled in or out with the build.                     *)
(***************************************************************************)
MaxData == 3

\* The variables the layout machine leaves alone.
fslOthers == <<headVars, nullVars, malVars, ownVars>>

\* array_data: what the layout reads of it.
array_data(length, offset, bits, values) ==
    [length |-> length, offset |-> offset, bitmap |-> bits, buffers |-> <<values>>]

\* fixed_size_layout<T>::fixed_size_layout(array_data&)
fixed_size_layout(checks, data) ==
    IF checks /\ ~(Len(data.buffers) > 0 /\ data.length = Len(data.bitmap))
    THEN [status |-> "assertion_failed"]
    ELSE [status |-> "ok", p_data |-> data]

\* fixed_size_layout<T>::size(): length - offset
fixed_size_layout_size(l) == l.p_data.length - l.p_data.offset

\* fixed_size_layout<T>::data(): buffers[0].data<T>()
fixed_size_layout_data(l) == l.p_data.buffers[1]

\* fixed_size_layout<T>::value reading data()[i].
fixed_size_layout_value_no_offset(l, i) == fixed_size_layout_data(l)[i + 1]

\* fixed_size_layout<T>::value(i): data()[i + p_data->offset]
fixed_size_layout_value(l, i) == fixed_size_layout_data(l)[i + l.p_data.offset + 1]

\* fixed_size_layout<T>::has_value(i): p_data->bitmap[i + p_data->offset]
fixed_size_layout_has_value(l, i) == l.p_data.bitmap[i + l.p_data.offset + 1]

\* fixed_size_layout<T>::operator[](i): assert(i < size());
\* reference(value(i), has_value(i)).
fixed_size_layout_subscript(checks, l, i) ==
    IF checks /\ ~(i < fixed_size_layout_size(l)) THEN [status |-> "assertion_failed"]
    ELSE [status    |-> "ok",
          value     |-> fixed_size_layout_value(l, i),
          has_value |-> fixed_size_layout_has_value(l, i)]

\* value_begin(): data() + offset; value_end(): value_begin() + size().
value_begin(l) == l.p_data.offset

value_end(l) == value_begin(l) + fixed_size_layout_size(l)

\* bitmap_begin(): bitmap.begin() + offset; bitmap_end(): bitmap_begin() + size().
bitmap_begin(l) == l.p_data.offset

bitmap_end(l) == bitmap_begin(l) + fixed_size_layout_size(l)

\* std::ranges::subrange(first, last) over a buffer, read front to back.
subrange(buffer, first, last) == [k \in 1..last - first |-> buffer[first + k]]

\* fixed_size_layout<T>::values()
fixed_size_layout_values(l) ==
    subrange(fixed_size_layout_data(l), value_begin(l), value_end(l))

\* fixed_size_layout<T>::bitmap()
fixed_size_layout_bitmap(l) == subrange(l.p_data.bitmap, bitmap_begin(l), bitmap_end(l))

\* for (auto it = l.begin(); it != l.end(); ++it) visit(*it): a
\* layout_iterator steps its value iterator and its bitmap iterator together.
RECURSIVE layout_visit(_, _, _, _)
layout_visit(l, value_it, bitmap_it, last) ==
    IF value_it = last THEN <<>>
    ELSE <<[value     |-> fixed_size_layout_data(l)[value_it + 1],
            has_value |-> l.p_data.bitmap[bitmap_it + 1]]>>
         \o layout_visit(l, value_it + 1, bitmap_it + 1, last)

\* The value buffer of an array of n elements: element k holds k.
DataBuffer(n) == [k \in 1..n |-> k - 1]

LayoutInit ==
    /\ contracts \in BOOLEAN
    /\ BitmapIdle
    /\ EnsureIdle
    /\ FactoryIdle
    /\ ListIdle
    /\ SchemaIdle
    /\ CopyIdle
    /\ BuilderIdle
    /\ NullIdle
    /\ FslIdle
    /\ MalIdle
    /\ OwnIdle

\* No assertion has ended the program.
LayoutRunning ==
    IF fsl = None THEN FALSE
    ELSE IF fsl.status # "ok" THEN FALSE
    ELSE IF fsl_op = None THEN TRUE
    ELSE IF fsl_op.op # "subscript" THEN TRUE
    ELSE fsl_op.result.status = "ok"

\* fixed_size_layout<T> l(data); for an array_data of any length, sliced at
\* any offset inside it.
MakeLayout ==
    /\ fsl = None
    /\ \E length \in 0..MaxData :
        \E offset \in 0..length, bits \in [1..length -> BOOLEAN] :
            fsl' = fixed_size_layout(contracts,
                                     array_data(length, offset, bits, DataBuffer(length)))
    /\ UNCHANGED <<fslOthers, fsl_op>>

\* l[i]; i == size() is tried where the assertion is there to stop it.
SubscriptLayout ==
    /\ LayoutRunning
    /\ \E i \in 0..(IF contracts THEN fixed_size_layout_size(fsl)
                                 ELSE fixed_size_layout_size(fsl) - 1) :
        fsl_op' = [op |-> "subscript", i |-> i,
                   result |-> fixed_size_layout_subscript(contracts, fsl, i)]
    /\ UNCHANGED <<fslOthers, fsl>>

\* for (auto x : l) ...
IterateLayout ==
    /\ LayoutRunning
    /\ fsl_op' = [op |-> "iterate",
                  visited |-> layout_visit(fsl, value_begin(fsl), bitmap_begin(fsl),
                                           value_end(fsl))]
    /\ UNCHANGED <<fslOthers, fsl>>

\* l.values()
ValuesLayout ==
    /\ LayoutRunning
    /\ fsl_op' = [op |-> "values", visited |-> fixed_size_layout_values(fsl)]
    /\ UNCHANGED <<fslOthers, fsl>>

\* l.bitmap()
BitmapLayout ==
    /\ LayoutRunning
    /\ fsl_op' = [op |-> "bitmap", visited |-> fixed_size_layout_bitmap(fsl)]
    /\ UNCHANGED <<fslOthers, fsl>>

LayoutNext == MakeLayout \/ SubscriptLayout \/ IterateLayout \/ ValuesLayout \/ BitmapLayout

LayoutSpec == LayoutInit /\ [][LayoutNext]_vars

(***************************************************************************)
(* AdoptSpec: the list-family constructors on any descriptor an external   *)
(* producer can hand over: with or without a child, with all or some of    *)
(* the buffers of its format.  Indexing children() or buffers() past the   *)
(* end is a read outside the vector: the program faults, or goes on with   *)
(* whatever lies there.                                                    *)
(***************************************************************************)
\* The variables the adopt machine leaves alone.
malOthers == <<headVars, nullVars, fslVars, ownVars>>

\* A child descriptor of the given format with no elements.
StrayChild(format) == [format |-> format, length |-> 0, values |-> <<>>]

\* What children()[0] yields: the child, or, on a proxy without children,
\* no particular descriptor.
seen_children(proxy) ==
    IF Len(proxy.children) > 0 THEN {proxy.children}
    ELSE {<<StrayChild(<<"i">>)>>, <<StrayChild(<<"+", "q">>)>>}

\* The constructor of the class the format names.
construct(checks, proxy) ==
    CASE proxy.format \in {<<"+", "l">>, <<"+", "L">>} ->
            list_array_impl(proxy.format = <<"+", "L">>, proxy)
      [] proxy.format \in {<<"+", "v", "l">>, <<"+", "v", "L">>} ->
            list_view_array_impl(proxy.format = <<"+", "v", "L">>, proxy)
      [] OTHER -> fixed_sized_list_array(checks, proxy)

\* The highest index of buffers() the constructor of the class reads.
last_buffer_read(proxy) ==
    CASE proxy.format \in {<<"+", "l">>, <<"+", "L">>}           -> OFFSET_BUFFER_INDEX
      [] proxy.format \in {<<"+", "v", "l">>, <<"+", "v", "L">>} -> SIZES_BUFFER_INDEX
      [] OTHER                                                   -> -1

\* The constructor run on what children()[0] yielded: the array or the
\* failure, and whether children() or buffers() was indexed past its end.
\* make_list_offsets / make_list_sizes run when the base constructor has
\* not thrown.
adopted(checks, proxy, children) ==
    LET made == construct(checks, [proxy EXCEPT !.children = children])
    IN  [made       |-> made,
         stray_read |-> \/ Len(proxy.children) = 0
                        \/ /\ array_factory(children[1].format).status = "made"
                           /\ last_buffer_read(proxy) >= Len(proxy.buffers)]

\* Everything the construction can do.
adopt_outcomes(checks, proxy) ==
    LET runs == {adopted(checks, proxy, c) : c \in seen_children(proxy)}
    IN  runs \cup {[made |-> [status |-> "fault"], stray_read |-> TRUE] :
                      r \in {x \in runs : x.stray_read}}

\* The buffers a producer fills for an array of one valid element:
\* validity, offsets, sizes.
ProducerBuffers(big) ==
    <<<<TRUE>>,
      extract_storage(U8Buffer(OffsetWidth(big), <<0, 1>>)),
      extract_storage(U8Buffer(OffsetWidth(big), <<1>>))>>

\* The children a producer attaches: none, a child the factory knows, a
\* child it does not.
ProducerChildren == {<<>>, <<FlatArray(1)>>, <<StrayChild(<<"+", "q">>)>>}

\* The descriptors handed over for a format: the first n of the buffers.
ProducerProxies(format, big) ==
    {[status     |-> "ok",
      id         |-> FirstId,
      format     |-> format,
      length     |-> 1,
      null_count |-> 0,
      offset     |-> 0,
      buffers    |-> SubSeq(ProducerBuffers(big), 1, n),
      children   |-> c] : n \in 0..Len(ProducerBuffers(big)), c \in ProducerChildren}

AdoptInit == LayoutInit

\* list_array / big_list_array a(std::move(proxy));
AdoptAnyList ==
    /\ mal = None
    /\ \E big \in BOOLEAN :
        \E proxy \in ProducerProxies(IF big THEN <<"+", "L">> ELSE <<"+", "l">>, big) :
            \E out \in adopt_outcomes(contracts, proxy) :
                mal' = [proxy |-> proxy, family |-> "list", made |-> out.made,
                        stray_read |-> out.stray_read]
    /\ UNCHANGED malOthers

\* list_view_array / big_list_view_array a(std::move(proxy));
AdoptAnyListView ==
    /\ mal = None
    /\ \E big \in BOOLEAN :
        \E proxy \in ProducerProxies(IF big THEN <<"+", "v", "L">> ELSE <<"+", "v", "l">>, big) :
            \E out \in adopt_outcomes(contracts, proxy) :
                mal' = [proxy |-> proxy, family |-> "list_view", made |-> out.made,
                        stray_read |-> out.stray_read]
    /\ UNCHANGED malOthers

\* fixed_sized_list_array a(std::move(proxy));
AdoptAnyFixed ==
    /\ mal = None
    /\ \E proxy \in ProducerProxies(<<"+", "w", ":", "1">>, TRUE) :
        \E out \in adopt_outcomes(contracts, proxy) :
            mal' = [proxy |-> proxy, family |-> "fixed", made |-> out.made,
                    stray_read |-> out.stray_read]
    /\ UNCHANGED malOthers

AdoptNext == AdoptAnyList \/ AdoptAnyListView \/ AdoptAnyFixed

AdoptSpec == AdoptInit /\ [][AdoptNext]_vars

(***************************************************************************)
(* LifetimeSpec: a list array on an owning proxy, from construction to the *)
(* destruction of every object that ever held it.  The proxy owns two root *)
(* descriptors, the ArrowSchema and the ArrowArray, each with one child;   *)
(* a holder is a list_array object: the one constructed and the ones it is *)
(* moved into.  Per descriptor kind the machine keeps the struct, the heap *)
(* behind it (how often the child's release callback ran) and how often    *)
(* the root's release callback ran.                                        *)
(***************************************************************************)
MaxMoves == 2

\* The variables the lifetime machine leaves alone.
ownOthers == <<headVars, nullVars, fslVars, malVars>>

DescriptorKinds == {"schema", "array"}

\* The root descriptor create_proxy makes for a list array: one child, no
\* dictionary, release and private data set.  make_arrow_array fills the
\* ArrowArray the way make_arrow_schema fills the ArrowSchema.
root_descriptor(checks, format) ==
    make_arrow_schema_unique_ptr(checks, format, <<>>, <<>>, <<>>, 1,
                                 ChildrenArray(<<ChildPtr(1)>>), NullPtr)

\* Whether the proxy of a child layout is a view of the child.
is_view(flat) == "view_of" \in DOMAIN flat

\* ~arrow_proxy(): an owning proxy whose descriptor still has its release
\* callback calls it; a view and a moved-from proxy call nothing.
arrow_proxy_destructor(checks, owning, desc, heap) ==
    IF owning /\ desc.release # NullPtr
    THEN release_arrow_schema(checks, desc, heap)
    ELSE [result |-> "nothing", desc |-> desc, heap |-> heap, events |-> <<>>]

\* The destructor of the child layout p_flat_array points to: the proxy it
\* holds releases the child only if it owns it.
child_layout_destructor(flat, heap) ==
    IF is_view(flat) THEN heap ELSE [heap EXCEPT !.children[1] = @ + 1]

\* ~list_array() of a holder: the members in reverse order, p_flat_array
\* (null in a moved-from holder), then the proxy of the base class (moved
\* out of in a moved-from holder).
list_array_destructor(checks, o, h) ==
    LET holds == o.holders[h] = "owning"
        heap1 == [k \in DescriptorKinds |->
                    IF holds THEN child_layout_destructor(o.a.p_flat_array, o.heap[k])
                    ELSE o.heap[k]]
        done  == [k \in DescriptorKinds |->
                    arrow_proxy_destructor(checks, holds, o.desc[k], heap1[k])]
    IN  [o EXCEPT !.holders[h] = "destroyed",
                  !.desc  = [k \in DescriptorKinds |-> done[k].desc],
                  !.heap  = [k \in DescriptorKinds |-> done[k].heap],
                  !.calls = [k \in DescriptorKinds |->
                                @[k] + (IF done[k].result = "returned" THEN 1 ELSE 0)],
                  !.log   = Append(@, [holder |-> h,
                                       was    |-> o.holders[h],
                                       child_layout_released |->
                                           \E k \in DescriptorKinds : heap1[k] # o.heap[k],
                                       root_released |->
                                           \E k \in DescriptorKinds :
                                               done[k].result = "returned"])]

LifetimeInit == LayoutInit

\* arrow_proxy proxy(std::move(arr), std::move(schema));
\* list_array ar(std::move(proxy));
ConstructOwner ==
    /\ own = None
    /\ \E big \in BOOLEAN, sizes \in SizeSeqs :
        LET proxy == list_array_create_proxy(contracts, big, FlatArray(MaxFlat),
                                             offset_from_sizes(big, sizes), DefaultValidity)
            root  == root_descriptor(contracts, proxy.format)
        IN  own' = [a       |-> list_array_impl(big, proxy),
                    desc    |-> [k \in DescriptorKinds |-> root.desc],
                    heap    |-> [k \in DescriptorKinds |-> root.heap],
                    calls   |-> [k \in DescriptorKinds |-> 0],
                    holders |-> <<"owning">>,
                    log     |-> <<>>]
    /\ UNCHANGED ownOthers

\* list_array b(std::move(a)): the defaulted move constructor; the proxy
\* and p_flat_array go to the new holder.
MoveOwner ==
    /\ own # None
    /\ Len(own.holders) <= MaxMoves
    /\ \E h \in 1..Len(own.holders) :
        /\ own.holders[h] = "owning"
        /\ own' = [own EXCEPT !.holders = Append([@ EXCEPT ![h] = "moved_from"], "owning")]
    /\ UNCHANGED ownOthers

\* A holder goes out of scope.
DestroyHolder ==
    /\ own # None
    /\ \E h \in 1..Len(own.holders) :
        /\ own.holders[h] # "destroyed"
        /\ own' = list_array_destructor(contracts, own, h)
    /\ UNCHANGED ownOthers

LifetimeNext == ConstructOwner \/ MoveOwner \/ DestroyHolder

LifetimeSpec == LifetimeInit /\ [][LifetimeNext]_vars

(***************************************************************************)
(* Properties.                                                             *)
(***************************************************************************)
\* C1: for every sequence of sizes, offset_from_sizes returns one more offset
\* than there are sizes, the first offset is 0, and consecutive offsets differ
\* by the size between them; no sizes give the single offset 0.
C1_OffsetsArePrefixSums ==
    (offs # None /\ offs.from = "sizes") =>
        LET offsets == offs.buffer.data
            sizes   == offs.sizes
        IN  /\ offs.buffer.width = OffsetWidth(offs.BIG)
            /\ Len(offsets) = Len(sizes) + 1
            /\ offsets[1] = 0
            /\ \A k \in 1..Len(sizes) : offsets[k + 1] - offsets[k] = sizes[k]
            /\ sizes = <<>> => offsets = <<0>>

C1_Witness ==
    /\ offs # None
    /\ offs.from = "sizes"
    /\ Len(offs.sizes) = 2
    /\ offs.sizes[1] > 0
    /\ offs.sizes[2] > 0
    /\ offs.buffer.data[3] = offs.sizes[1] + offs.sizes[2]

CountFalse(bs) == Cardinality({k \in 1..Len(bs) : ~bs[k]})

PopCount(bits) == Cardinality({k \in 1..Len(bits) : bits[k]})

\* C2: a bitmap constructed from a boolean sequence reports as null_count the
\* number of false entries, and after every set and resize the cached
\* null_count is size() minus the number of one-bits.
C2_NullCountMatchesRecount ==
    /\ bm_last.op = "range" =>
        /\ size(bitmap) = Len(bm_last.bs)
        /\ null_count(bitmap) = CountFalse(bm_last.bs)
    /\ null_count(bitmap) = size(bitmap) - PopCount(bitmap.bits)

C2_Witness ==
    /\ bm_last.op = "set"
    /\ ~bm_last.v
    /\ size(bitmap) = MaxBits
    /\ null_count(bitmap) = 2

\* ms marks with 0 exactly the entries bs has false.
MarkersOf(ms, bs) ==
    /\ Len(ms) = Len(bs)
    /\ \A k \in 1..Len(bs) : (ms[k] = 0) <=> ~bs[k]

\* C3: for a size n, a boolean sequence bs of length n and the marker sequence
\* that is 0 exactly where bs is false, the bool overload and the unsigned
\* overload of ensure_validity_bitmap return the same bitmap: same size, same
\* bit at every index, same null_count.
C3_BoolsAndMarkersAgree ==
    (/\ ens_in.kind = "ranges"
     /\ Len(ens_in.bools) = ens_in.size
     /\ MarkersOf(ens_in.markers, ens_in.bools)
     /\ ens_out.bools # None
     /\ ens_out.markers # None) =>
        /\ ens_out.bools.status = "ok"
        /\ ens_out.markers.status = "ok"
        /\ size(ens_out.bools.bitmap) = ens_in.size
        /\ size(ens_out.markers.bitmap) = ens_in.size
        /\ \A i \in 0..ens_in.size - 1 :
            /\ test(ens_out.bools.bitmap, i) = ens_in.bools[i + 1]
            /\ test(ens_out.markers.bitmap, i) = test(ens_out.bools.bitmap, i)
        /\ null_count(ens_out.markers.bitmap) = null_count(ens_out.bools.bitmap)

C3_Witness ==
    /\ ens_in.kind = "ranges"
    /\ ens_in.size = MaxBits
    /\ ens_in.bools = [k \in 1..MaxBits |-> k = 2]
    /\ ens_in.markers = [k \in 1..MaxBits |-> IF k = 2 THEN 2 ELSE 0]
    /\ ens_out.bools # None
    /\ ens_out.markers # None
    /\ null_count(ens_out.markers.bitmap) = MaxBits - 1

\* A validity argument that is a bitmap of size 0.
EmptyValidity(vin) == vin.kind \in {"rvalue", "cref"} /\ size(vin.bitmap) = 0

\* C4: a validity bitmap of size 0 means all valid: both bitmap overloads of
\* ensure_validity_bitmap return, for the array's length n, n true bits with
\* null_count 0, and a list, list-view or fixed-size-list array built with
\* such a validity argument has null_count 0 and has_value(i) for every i.
C4_EmptyValidityMeansAllValid ==
    (/\ arr # None
     /\ arr.args.by = "create_proxy"
     /\ EmptyValidity(arr.args.validity)
     /\ arr.proxy.status = "ok") =>
        LET n    == arr.proxy.length
            full == Ok([bits |-> [k \in 1..n |-> TRUE], null_count |-> 0])
        IN  /\ ensure_validity_bitmap_cref(n, arr.args.validity.bitmap) = full
            /\ ensure_validity_bitmap_rvalue(n, arr.args.validity.bitmap) = full
            /\ arr.proxy.null_count = 0
            /\ Len(arr.proxy.buffers[1]) = n
            /\ arr.made.status = "ok"
            /\ array_size(arr.made) = n
            /\ \A i \in 0..n - 1 : has_value(arr.made, i)

C4_Witness ==
    /\ arr # None
    /\ arr.args.by = "create_proxy"
    /\ arr.args.family = "list_view"
    /\ arr.args.validity = DefaultValidity
    /\ arr.made.status = "ok"
    /\ array_size(arr.made) = MaxLen
    /\ has_value(arr.made, MaxLen - 1)

\* The grammar of format tags: the layout each scalar tag names.
GrammarLayout(c) == IF c = "n" THEN "null_array" ELSE "primitive_array"

Element(kind, bits, signed) == [kind |-> kind, bits |-> bits, signed |-> signed]

\* The grammar of format tags: the element each scalar tag names.
GrammarElement(c) ==
    CASE c = "n" -> Element("null", 0, FALSE)
      [] c = "b" -> Element("bool", 1, FALSE)
      [] c = "c" -> Element("int", 8, TRUE)
      [] c = "C" -> Element("int", 8, FALSE)
      [] c = "s" -> Element("int", 16, TRUE)
      [] c = "S" -> Element("int", 16, FALSE)
      [] c = "i" -> Element("int", 32, TRUE)
      [] c = "I" -> Element("int", 32, FALSE)
      [] c = "l" -> Element("int", 64, TRUE)
      [] c = "L" -> Element("int", 64, FALSE)
      [] c = "f" -> Element("float", 32, TRUE)
      [] c = "d" -> Element("float", 64, TRUE)

\* How the elements of a C++ type are interpreted.
Interpretation(T) ==
    CASE T = "none"          -> Element("null", 0, FALSE)
      [] T = "bool"          -> Element("bool", 1, FALSE)
      [] T = "std::int8_t"   -> Element("int", 8, TRUE)
      [] T = "std::uint8_t"  -> Element("int", 8, FALSE)
      [] T = "std::int16_t"  -> Element("int", 16, TRUE)
      [] T = "std::uint16_t" -> Element("int", 16, FALSE)
      [] T = "std::int32_t"  -> Element("int", 32, TRUE)
      [] T = "std::uint32_t" -> Element("int", 32, FALSE)
      [] T = "std::int64_t"  -> Element("int", 64, TRUE)
      [] T = "std::uint64_t" -> Element("int", 64, FALSE)
      [] T = "float"         -> Element("float", 32, TRUE)
      [] T = "double"        -> Element("float", 64, TRUE)
      [] OTHER               -> Element("nested", 0, FALSE)

\* C5: for each single-character tag of the grammar the factory makes the
\* layout the grammar names: null_array for n, and a primitive_array of bool,
\* int8, uint8, int16, uint16, int32, uint32, int64, uint64, float32, float64
\* for b, c, C, s, S, i, I, l, L, f, d; the format "i" gives 32-bit signed
\* integers.
C5_ScalarTagsFollowGrammar ==
    (/\ layout # None
     /\ Len(proxy_format) = 1
     /\ proxy_format[1] \in ScalarChars) =>
        /\ layout.status = "made"
        /\ layout.class = GrammarLayout(proxy_format[1])
        /\ Interpretation(layout.T) = GrammarElement(proxy_format[1])
        /\ proxy_format = <<"i">> => Interpretation(layout.T) = Element("int", 32, TRUE)

C5_Witness ==
    /\ proxy_format = <<"i">>
    /\ layout = Made("primitive_array", "std::int32_t")

HasPrefix(format, prefix) ==
    /\ Len(format) >= Len(prefix)
    /\ SubSeq(format, 1, Len(prefix)) = prefix

\* The grammar of format tags: the nested layout a multi-character format
\* names by its prefix ("+vl" and "+vL" before "+l" and "+L" cannot clash: the
\* second character tells them apart).
GrammarNested(format) ==
    CASE HasPrefix(format, <<"+", "l">>)      -> "list_array"
      [] HasPrefix(format, <<"+", "L">>)      -> "big_list_array"
      [] HasPrefix(format, <<"+", "v", "l">>) -> "list_view_array"
      [] HasPrefix(format, <<"+", "v", "L">>) -> "big_list_view_array"
      [] HasPrefix(format, <<"+", "w", ":">>) -> "fixed_sized_list_array"
      [] OTHER                                -> "none"

\* C6: for every multi-character format the factory makes list_array for the
\* prefix "+l", big_list_array for "+L", list_view_array for "+vl",
\* big_list_view_array for "+vL" and fixed_sized_list_array for "+w:".
C6_NestedPrefixesAccepted ==
    (/\ layout # None
     /\ Len(proxy_format) > 1
     /\ GrammarNested(proxy_format) # "none") =>
        /\ layout.status = "made"
        /\ layout.class = GrammarNested(proxy_format)

\* The tags the grammar supports.
Supported(format) ==
    \/ Len(format) = 1 /\ format[1] \in ScalarChars
    \/ Len(format) > 1 /\ GrammarNested(format) # "none"

\* C7: for every format that is no supported tag (another single character,
\* the empty string, another multi-character string) the factory fails with
\* the unsupported-format error and makes no layout.
C7_OtherTagsUnsupported ==
    (layout # None /\ ~Supported(proxy_format)) =>
        layout = Thrown("Unsupported format")

C7_Witness ==
    /\ proxy_format = <<"+", "q">>
    /\ layout = Thrown("Unsupported format")

\* Element k of a buffer of w-byte elements.
ElementAt(bytes, k, w) == SubSeq(bytes, k * w + 1, (k + 1) * w)

\* offsets[k] of the array: element k of its offsets buffer, counted from the
\* array's offset.
OffsetsAt(a, k) ==
    ElementAt(a.proxy.buffers[OFFSET_BUFFER_INDEX + 1], a.proxy.offset + k,
              OffsetWidth(a.BIG))

\* sizes[k] of the list-view array.
SizesAt(a, k) ==
    ElementAt(a.proxy.buffers[SIZES_BUFFER_INDEX + 1], a.proxy.offset + k,
              OffsetWidth(a.BIG))

\* The offsets and sizes buffers hold the elements from the array's offset to
\* its end.
HoldsElements(a) ==
    \A b \in {OFFSET_BUFFER_INDEX, SIZES_BUFFER_INDEX} :
        Len(a.proxy.buffers[b + 1]) >=
            (a.proxy.offset + a.proxy.length) * OffsetWidth(a.BIG)

ListValue(flat, begin, end) ==
    [flat |-> flat, begin |-> ZeroExtend(begin, 8), end |-> ZeroExtend(end, 8)]

\* C8: for a list_array or big_list_array and every i below its size, value(i)
\* is the list_value over the array's flat child with the range
\* [offsets[i], offsets[i+1]).
C8_ListValueIsOffsetsRange ==
    (/\ arr # None
     /\ arr.args.family = "list"
     /\ arr.made.status = "ok"
     /\ read # None) =>
        read.value = ListValue(arr.made.p_flat_array,
                               OffsetsAt(arr.made, read.i),
                               OffsetsAt(arr.made, read.i + 1))

\* C9: for a list-view array and every i below its size, value(i) is the range
\* [offsets[i], offsets[i] + sizes[i]) of the flat child, whatever the order
\* or overlap of the offsets.
C9_ListViewValueIsOffsetPlusSize ==
    (/\ arr # None
     /\ arr.args.family = "list_view"
     /\ arr.made.status = "ok"
     /\ HoldsElements(arr.made)
     /\ read # None) =>
        read.value = ListValue(arr.made.p_flat_array,
                               OffsetsAt(arr.made, read.i),
                               WordAdd(OffsetsAt(arr.made, read.i),
                                       SizesAt(arr.made, read.i)))

\* The number a decimal numeral writes.
RECURSIVE DecimalOf(_)
DecimalOf(numeral) ==
    IF numeral = <<>> THEN 0
    ELSE 10 * DecimalOf(SubSeq(numeral, 1, Len(numeral) - 1))
            + DigitValue(numeral[Len(numeral)])

\* A format "+w:N", N an integer written in decimal.
IsFixedFormat(format) ==
    /\ HasPrefix(format, <<"+", "w", ":">>)
    /\ Len(format) > 3
    /\ \A k \in 4..Len(format) : IsDigit(format[k])
    /\ Len(format) > 4 => format[4] # "0"

WrittenSize(format) == DecimalOf(SubSeq(format, 4, Len(format)))

\* C10: a fixed_sized_list_array whose format is "+w:N" has list size N and
\* value(i) is the range [i*N, i*N+N) of the flat child for every i below its
\* size; the format create_proxy writes for list size N parses back to N.
C10_FixedListSizeRoundTrip ==
    /\ (/\ arr # None
        /\ arr.args.family = "fixed"
        /\ arr.proxy.status = "ok"
        /\ IsFixedFormat(arr.proxy.format)) =>
            LET N == WrittenSize(arr.proxy.format)
            IN  /\ arr.made.status = "ok"
                /\ arr.made.m_list_size = ToWord(N, 8)
                /\ read # None =>
                    read.value = ListValue(arr.made.p_flat_array,
                                           ToWord(read.i * N, 8),
                                           ToWord(read.i * N + N, 8))
    /\ (/\ arr # None
        /\ arr.args.family = "fixed"
        /\ arr.args.by = "create_proxy"
        /\ arr.proxy.status = "ok") =>
            /\ IsFixedFormat(arr.proxy.format)
            /\ WrittenSize(arr.proxy.format) = arr.args.list_size
            /\ arr.made.status = "ok"
            /\ arr.made.m_list_size = ToWord(arr.args.list_size, 8)

C10_Witness ==
    /\ arr # None
    /\ arr.args.family = "fixed"
    /\ arr.args.by = "create_proxy"
    /\ arr.args.list_size = 1
    /\ arr.made.status = "ok"
    /\ array_size(arr.made) = MaxFlat
    /\ read # None
    /\ read.i = 2
    /\ read.value.end = ToWord(3, 8)

\* The suffix after "+w:" is a non-negative integer: digits and nothing else.
HasIntegerSuffix(format) ==
    /\ Len(format) > 3
    /\ \A k \in 4..Len(format) : IsDigit(format[k])

\* C11: constructing a fixed_sized_list_array from a format whose suffix after
\* "+w:" is no non-negative integer (empty, negative such as "-1", digits
\* followed by other characters such as "3x", or non-digits) fails and yields
\* no array.
C11_InvalidSuffixRejected ==
    (/\ arr # None
     /\ arr.args.family = "fixed"
     /\ arr.proxy.status = "ok"
     /\ HasPrefix(arr.proxy.format, <<"+", "w", ":">>)
     /\ ~HasIntegerSuffix(arr.proxy.format)) =>
        /\ arr.made.status = "thrown"
        /\ read = None

\* The children a schema made from these arguments owns.
OwnedChildren(args) ==
    IF args.children = NullPtr THEN {}
    ELSE {i \in 1..args.n_children : args.children.elems[i] # NullPtr}

\* The positions of the events of one kind in a log.
EventsOf(events, e) == {k \in 1..Len(events) : events[k] = e}

\* C12: release_arrow_schema on a live schema made by
\* make_arrow_schema_unique_ptr frees the private data once, then releases the
\* children the schema owns, then resets the struct: afterwards every field is
\* zero or null and release is null.
C12_ReleaseOrder ==
    (/\ schema # None
     /\ schema.by = "make"
     /\ schema.status = "ok"
     /\ sch_log.calls = 1) =>
        LET ev == sch_log.events
        IN  /\ sch_log.result = "returned"
            /\ Len(ev) >= 2
            /\ ev[1] = Event("delete_private_data")
            /\ ev[Len(ev)] = Event("reset")
            /\ EventsOf(ev, Event("delete_private_data")) = {1}
            /\ EventsOf(ev, Event("reset")) = {Len(ev)}
            /\ \A i \in 1..schema.args.n_children :
                Cardinality(EventsOf(ev, ChildReleased(i))) =
                    IF i \in OwnedChildren(schema.args) THEN 1 ELSE 0
            /\ sch_heap.private.deletes = 1
            /\ \A i \in 1..schema.args.n_children :
                sch_heap.children[i] = IF i \in OwnedChildren(schema.args) THEN 1 ELSE 0
            /\ schema.desc = ArrowSchemaZero
            /\ schema.desc.release = NullPtr

C12_Witness ==
    /\ schema # None
    /\ schema.by = "make"
    /\ schema.status = "ok"
    /\ schema.args.n_children = MaxChildren
    /\ OwnedChildren(schema.args) = 1..MaxChildren
    /\ sch_log.calls = 1
    /\ sch_log.result = "returned"
    /\ Len(sch_log.events) = MaxChildren + 2
    /\ schema.desc.release = NullPtr

\* C13: release_arrow_schema on a descriptor whose release pointer is already
\* null (a released schema, or the all-zero default schema) is detected and
\* frees no private data and releases no child a second time.
C13_DoubleReleaseDetected ==
    (/\ sch_log.calls >= 1
     /\ sch_log.pre.release = NullPtr) =>
        /\ sch_log.result = "assertion_failed"
        /\ sch_heap = sch_log.pre_heap

\* C14: a schema made by make_arrow_schema_unique_ptr has a non-empty format
\* and, when n_children > 0, a children array with no null child pointer; a
\* call with an empty format, a null child, or n_children > 0 and a null
\* children array makes no schema.
C14_SchemaInvariant ==
    (/\ schema # None
     /\ schema.by = "make"
     /\ schema.status = "ok"
     /\ schema.desc.release # NullPtr) =>
        /\ schema.desc.format # NullPtr
        /\ schema.desc.format.str # <<>>
        /\ schema.desc.n_children > 0 =>
            /\ schema.desc.children # NullPtr
            /\ \A i \in 1..schema.desc.n_children :
                schema.desc.children.elems[i] # NullPtr

\* The allocation a pointer of an array points into; the array's own when
\* it has no such pointer.
Target(a, ptr) == IF ptr = None THEN a.proxy.id ELSE ptr.proxy

\* C15: after b is copy-constructed or copy-assigned from a, the offsets
\* pointer, the sizes pointer and the flat child of b are the ones derived
\* from b's own proxy, whose allocation is live and is not a's; none of them
\* points into a's allocation, before and after a is destroyed, and no write
\* through b has touched a released allocation.
C15_CopyDerivesFromOwnProxy ==
    brr # None =>
        LET b == brr.made
        IN  /\ b.proxy.id # brr.from
            /\ b.proxy.id \in live
            /\ b.p_flat_array = make_flat_array(b.proxy)
            /\ IsList(b) => b.p_list_offsets = make_list_offsets(b.proxy)
            /\ IsListView(b) =>
                   /\ b.p_list_offsets = list_view_make_list_offsets(b.proxy)
                   /\ b.p_list_sizes = make_list_sizes(b.proxy)
            /\ \A id \in {Target(b, b.p_list_offsets), Target(b, b.p_list_sizes),
                           b.p_flat_array.view_of.proxy} :
                   id = b.proxy.id /\ id # brr.from
            /\ ~brr.fault

\* A copy-constructed list array on a sliced proxy, written through, after
\* the original is destroyed.
C15_Witness ==
    /\ brr # None
    /\ brr.by = "constructor"
    /\ IsList(brr.made)
    /\ brr.made.proxy.offset = 1
    /\ brr.writes >= 1
    /\ arr.made.status = "destroyed"

\* C16: whatever is written through the copy b, validity bits or elements
\* of the flat child, the original a shows what it showed when it was
\* copied: has_value(i) and value(i) at every index and the elements of its
\* flat child.
C16_DeepCopyIndependence ==
    (brr # None /\ arr.made.status = "ok") => Observed(arr.made) = brr.observed

\* A validity bit cleared through a copy-assigned b while a still shows the
\* element as valid.
C16_Witness ==
    /\ brr # None
    /\ brr.by = "assignment"
    /\ arr.made.status = "ok"
    /\ array_size(arr.made) >= 1
    /\ ~has_value(brr.made, 0)
    /\ has_value(arr.made, 0)

\* Element i of the layout built holds what element i of the range held: the
\* same flag and, when the flag is set, the same value.
ReadsBack(a, v, i) ==
    LET x == element(a, i)
    IN  /\ x.has = v[i + 1].has
        /\ v[i + 1].has => x.v = v[i + 1].v

\* C17: for every range v of primitives, nullable primitives, ranges of them
\* or strings, build(v) is a layout of Len(v) elements and element i has the
\* value of v[i], or has no value exactly when v[i] is the null sentinel.
C17_BuilderRoundTrip ==
    (built # None /\ built.shape \in {"primitive", "list", "string"}) =>
        /\ built.layout.status = "ok"
        /\ array_size(built.layout) = Len(built.input)
        /\ \A i \in 0..Len(built.input) - 1 : ReadsBack(built.layout, built.input, i)

\* A null range followed by a range holding a value and a null, the second
\* element read back.
C17_Witness ==
    /\ built # None
    /\ built.shape = "list"
    /\ built.input = <<nullval(<<>>), Some(<<Some(1), nullval(0)>>)>>
    /\ elem # None
    /\ elem.i = 1
    /\ elem.value = [status |-> "ok", value |-> <<Some(1), nullval(0)>>]

\* The sum of the sizes of the first k ranges.
RECURSIVE SizesBefore(_, _)
SizesBefore(ranges, k) == IF k = 0 THEN 0 ELSE SizesBefore(ranges, k - 1) + Len(ranges[k])

\* C18: build() of a range of ranges is a list_array of as many elements as
\* the outer range, whose flat child is the concatenation of the inner
\* ranges in order and whose offsets are the prefix sums of their sizes; an
\* empty inner range gives a valid element of length 0.
C18_BuildListOfLists ==
    (built # None /\ built.shape = "list") =>
        LET a     == built.layout
            inner == ensure_value_range(built.input)
        IN  /\ a.status = "ok"
            /\ a.class = "list_array"
            /\ array_size(a) = Len(inner)
            /\ a.proxy.children[1].length = Len(join(inner))
            /\ \A k \in 0..Len(join(inner)) - 1 : child_at(a, k) = join(inner)[k + 1]
            /\ Len(a.proxy.buffers[OFFSET_BUFFER_INDEX + 1]) = 4 * (Len(inner) + 1)
            /\ \A k \in 0..Len(inner) : word_value(OffsetsAt(a, k)) = SizesBefore(inner, k)
            /\ \A i \in 0..Len(inner) - 1 :
                   (built.input[i + 1].has /\ inner[i + 1] = <<>>) =>
                       /\ has_value(a, i)
                       /\ element(a, i).v = <<>>

\* [[1, 2], []]: two elements, the second valid and empty.
C18_Witness ==
    /\ built # None
    /\ built.shape = "list"
    /\ built.input = <<Some(<<Some(1), Some(2)>>), Some(<<>>)>>
    /\ elem # None
    /\ elem.i = 1
    /\ elem.has_value
    /\ elem.value = [status |-> "ok", value |-> <<>>]

\* C19: a layout built from a range of nullable values has the size of the
\* range, a null_count equal to the number of null sentinels and has_value()
\* false exactly at their positions; value() of an element read gives the
\* input value where there is one and fails with BadAccess where there is
\* none.
C19_NullableRange ==
    (built # None /\ built.shape \in {"primitive", "list", "string"}) =>
        LET a == built.layout
            v == built.input
        IN  /\ a.status = "ok"
            /\ array_size(a) = Len(v)
            /\ a.proxy.null_count = CountFalse(where_valid(v))
            /\ \A i \in 0..Len(v) - 1 : has_value(a, i) = v[i + 1].has
            /\ elem # None =>
                   /\ elem.has_value = v[elem.i + 1].has
                   /\ elem.value = IF v[elem.i + 1].has
                                   THEN [status |-> "ok", value |-> v[elem.i + 1].v]
                                   ELSE [status |-> "BadAccess"]

\* [1, null]: value() of the second element fails with BadAccess.
C19_Witness ==
    /\ built # None
    /\ built.shape = "primitive"
    /\ built.input = <<Some(1), nullval(0)>>
    /\ elem # None
    /\ elem.i = 1
    /\ ~elem.has_value
    /\ elem.value = [status |-> "BadAccess"]

\* C20: build() of a range of arrays of N elements succeeds and gives a
\* fixed_sized_list_array of list size N with as many elements as the outer
\* range; its flat child has N * size() elements and outer element i, null
\* or not, takes the child range [i * N, i * N + N).
C20_BuildFixedArity ==
    (built # None /\ built.shape = "fixed") =>
        LET a == built.layout
            v == built.input
            N == built.arity
        IN  /\ a.status = "ok"
            /\ a.class = "fixed_sized_list_array"
            /\ a.m_list_size = ToWord(N, 8)
            /\ array_size(a) = Len(v)
            /\ a.proxy.children[1].length = N * Len(v)
            /\ \A i \in 0..Len(v) - 1 :
                   /\ value(a, i).begin = ToWord(i * N, 8)
                   /\ value(a, i).end = ToWord(i * N + N, 8)
                   /\ has_value(a, i) = v[i + 1].has
                   /\ \A j \in 1..N : child_at(a, i * N + j - 1) = v[i + 1].v[j]

\* C21: a null_array made with length n has format "n", no buffer and no
\* child, size() = n and null_count = n, and the iteration from begin() to
\* end() visits n elements, each of them null.
C21_NullArrayShape ==
    nul # None =>
        LET a == nul.a
            n == nul.args.length
        IN  /\ a.m_proxy.format = <<"n">>
            /\ Len(a.m_proxy.buffers) = 0
            /\ Len(a.m_proxy.children) = 0
            /\ null_array_size(a) = n
            /\ a.m_proxy.null_count = n
            /\ a.m_proxy.offset = 0
            /\ (nul_op # None /\ nul_op.op = "iterate") =>
                   /\ Len(nul_op.visited) = n
                   /\ \A k \in 1..n : ~nul_op.visited[k].has

\* A null_array of two elements iterated.
C21_Witness ==
    /\ nul # None
    /\ nul.args.length = 2
    /\ nul_op # None
    /\ nul_op.op = "iterate"
    /\ Len(nul_op.visited) = 2

\* What a == b and a[i] give for an index below size().
NullArrayInRange ==
    /\ nul_op.op = "equal" => nul_op.result = (null_array_size(nul.a) = null_array_size(nul.b))
    /\ (nul_op.op = "subscript" /\ nul_op.i < null_array_size(nul.a)) =>
           nul_op.result = [status |-> "ok", value |-> nullval(0)]

\* C30 as stated: a == b holds exactly when the sizes are equal, whatever
\* the names and metadata; a[i] is the null element for i < size() and is
\* rejected for i >= size().
C30_NullArrayEquality ==
    (nul # None /\ nul_op # None) =>
        /\ NullArrayInRange
        /\ (nul_op.op = "subscript" /\ nul_op.i >= null_array_size(nul.a)) =>
               nul_op.result.status # "ok"

\* C30 amended: a[i] for i >= size() is rejected where SPARROW_ASSERT is
\* compiled in; elsewhere it returns the null element like any other index.
C30_NullArrayEqualityAsserted ==
    (nul # None /\ nul_op # None) =>
        /\ NullArrayInRange
        /\ (nul_op.op = "subscript" /\ nul_op.i >= null_array_size(nul.a)) =>
               nul_op.result = IF contracts THEN [status |-> "assertion_failed"]
                               ELSE [status |-> "ok", value |-> nullval(0)]

\* a[size()] rejected by the assertion.
C30_Witness ==
    /\ contracts
    /\ nul # None
    /\ nul_op # None
    /\ nul_op.op = "subscript"
    /\ nul_op.i = null_array_size(nul.a)
    /\ nul_op.result.status = "assertion_failed"

\* C29: for every size n and every range of unsigned markers, shorter than,
\* as long as or longer than n, ensure_validity_bitmap(n, markers) returns a
\* bitmap of size exactly n and never sets a bit at an index >= n.
C29_MarkersStayInRange ==
    (/\ ens_in # None
     /\ ens_in.kind = "ranges"
     /\ ens_out.markers # None) =>
        /\ ens_out.markers.status = "ok"
        /\ size(ens_out.markers.bitmap) = ens_in.size

\* An array some create_proxy has built a proxy for.
Created == arr # None /\ arr.args.by = "create_proxy" /\ arr.proxy.status = "ok"

\* C23: a create_proxy given a non-empty validity bitmap whose size differs
\* from the number of elements, or list-view offsets and sizes of different
\* lengths, fails; no array is produced whose validity bitmap is not as long
\* as the array.
C23_ShapeMismatchRejected ==
    Created =>
        /\ (arr.args.validity.kind \in {"rvalue", "cref"} /\ size(arr.args.validity.bitmap) # 0) =>
               size(arr.args.validity.bitmap) = arr.proxy.length
        /\ arr.args.family = "list_view" => Len(arr.args.offsets) = Len(arr.args.sizes)
        /\ Len(arr.proxy.buffers[1]) = arr.proxy.length

\* C24: for a list or list-view array over a proxy with logical offset o the
\* offsets and sizes pointers stand o elements (o times the width of the
\* offset type in bytes) into their buffers, so that value(i) is
\* [offsets[o+i], offsets[o+i+1]), for a list-view
\* [offsets[o+i], offsets[o+i] + sizes[o+i]).
C24_PointersAdvanceByElements ==
    (/\ arr # None
     /\ arr.args.family \in {"list", "list_view"}
     /\ arr.made.status = "ok") =>
        LET a == arr.made
            w == OffsetWidth(a.BIG)
        IN  /\ a.p_list_offsets.byte = a.proxy.offset * w
            /\ a.p_list_sizes # None => a.p_list_sizes.byte = a.proxy.offset * w
            /\ read # None =>
                   IF arr.args.family = "list"
                   THEN read.value = ListValue(a.p_flat_array, OffsetsAt(a, read.i),
                                               OffsetsAt(a, read.i + 1))
                   ELSE HoldsElements(a) =>
                            read.value = ListValue(a.p_flat_array, OffsetsAt(a, read.i),
                                                   WordAdd(OffsetsAt(a, read.i),
                                                           SizesAt(a, read.i)))

\* The buffers the format of a family mandates.
MandatedBuffers(family) ==
    CASE family = "list"      -> 2
      [] family = "list_view" -> 3
      [] family = "fixed"     -> 1

\* C25: every proxy a list-family create_proxy produces has offset 0, one
\* child, the buffers its format mandates, null_count the number of false
\* validity bits with 0 <= null_count <= length, and, for a list array,
\* length + 1 entries in its offsets buffer, whatever offsets buffer was
\* passed in, an empty one included.
C25_CreateProxyInvariant ==
    Created =>
        /\ arr.proxy.offset = 0
        /\ Len(arr.proxy.children) = 1
        /\ Len(arr.proxy.buffers) = MandatedBuffers(arr.args.family)
        /\ arr.proxy.null_count = CountFalse(arr.proxy.buffers[1])
        /\ 0 <= arr.proxy.null_count
        /\ arr.proxy.null_count <= arr.proxy.length
        /\ arr.args.family = "list" =>
               arr.proxy.length + 1 = Len(arr.args.offsets)

\* C27: for a list size N >= 1 and a flat child of m elements create_proxy
\* yields length floor(m / N), so length * N <= m; for N = 0 the
\* construction is rejected and nothing is divided by zero.
C27_FixedLengthIsQuotient ==
    (arr # None /\ arr.args.by = "create_proxy" /\ arr.args.family = "fixed") =>
        /\ (arr.args.list_size >= 1 /\ arr.proxy.status = "ok") =>
               /\ arr.proxy.length = arr.proxy.children[1].length \div arr.args.list_size
               /\ arr.proxy.length * arr.args.list_size <= arr.proxy.children[1].length
        /\ arr.args.list_size = 0 =>
               arr.proxy.status \notin {"ok", "division_by_zero"}

Malformed(proxy, family) ==
    \/ Len(proxy.children) = 0
    \/ Len(proxy.buffers) < MandatedBuffers(family)
    \/ /\ Len(proxy.children) > 0
       /\ array_factory(proxy.children[1].format).status # "made"

\* C26: constructing a list-family layout from a proxy without a child, with
\* fewer buffers than its format requires or with a child the factory does
\* not support fails with an error surfaced to the caller: no layout comes
\* out of it, and child 0 or buffer 1 / 2 is never read where the proxy has
\* none.
C26_MalformedProxyRejected ==
    (mal # None /\ Malformed(mal.proxy, mal.family)) =>
        /\ mal.made.status \in {"thrown", "assertion_failed"}
        /\ ~mal.stray_read

\* How often the release callback of each descriptor has run.
Releases(o) ==
    [root_schema  |-> o.calls["schema"],
     root_array   |-> o.calls["array"],
     child_schema |-> o.heap["schema"].children[1],
     child_array  |-> o.heap["array"].children[1]]

AllDestroyed(o) == \A h \in 1..Len(o.holders) : o.holders[h] = "destroyed"

\* C22: over the lifetime of a list array on an owning proxy (construction,
\* the child layout made from a view of child 0, moves, destruction) the
\* release callback of each root descriptor and of each child descriptor
\* runs exactly once: never twice, the destruction of the child layout
\* releases nothing, a moved-from holder releases nothing, and once every
\* holder is destroyed no descriptor is left unreleased.
C22_ReleasedExactlyOnce ==
    own # None =>
        /\ \A d \in DOMAIN Releases(own) : Releases(own)[d] <= 1
        /\ \A e \in 1..Len(own.log) :
            /\ ~own.log[e].child_layout_released
            /\ own.log[e].was = "moved_from" => ~own.log[e].root_released
        /\ AllDestroyed(own) => \A d \in DOMAIN Releases(own) : Releases(own)[d] = 1

\* Moved twice, the three holders destroyed, the moved-from ones first.
C22_Witness ==
    /\ own # None
    /\ Len(own.holders) = MaxMoves + 1
    /\ AllDestroyed(own)
    /\ own.log[1].was = "moved_from"
    /\ Releases(own).child_schema = 1
====
